---------------------------- MODULE Spec2Model ----------------------------
(***************************************************************************)
(* State-machine model of the eldervale session server (src/server.js,     *)
(* the socket.io server of lines 426-1453): room registry, player          *)
(* membership and reconnection, quest-state merge, enemy pools, melee      *)
(* validation and the periodic sweep/simulation tick.                      *)
(*                                                                         *)
(* Conventions.  Times are integer milliseconds.  Display names, the       *)
(* room's createdAt stamp, and the enemies' name/animT/wanderA fields are  *)
(* presentation-only and are left out.  Math.random() draws come from      *)
(* small sets.  A client payload value is a "raw" value [t, n]: t is the   *)
(* JavaScript type tag and n the number it carries.                        *)
(***************************************************************************)
EXTENDS Integers, Sequences, FiniteSets, TLC

(***************************************************************************)
(* Bounds of the model.                                                    *)
(***************************************************************************)
MaxSockets == 3
MaxRooms == 1

(***************************************************************************)
(* Program constants.                                                      *)
(***************************************************************************)
SERVER_TICK_MS == 50
GAME_STATE_EMIT_MS == 180
PLAYER_RECONNECT_GRACE_MS == 3 * 60 * 1000
EMPTY_STARTED_ROOM_GRACE_MS == 8 * 60 * 1000
MaxTickDtMs == 200
AggroRadius == 245

DIFFICULTY_MULT10 == [easy |-> 7, medium |-> 10, hard |-> 15, impossible |-> 20]

WOLF_LEASH == [minX |-> 950, maxX |-> 1860, minY |-> 100, maxY |-> 1080]
BANDIT_LEASH == [minX |-> 900, maxX |-> 1760, minY |-> 250, maxY |-> 1380]
DIRE_LEASH == [minX |-> 1280, maxX |-> 1860, minY |-> 80, maxY |-> 370]
WARLORD_CAVE_LEASH == [minX |-> 90, maxX |-> 820, minY |-> 90, maxY |-> 570]

QUEST_NUM_KEYS == {"wolvesSlain", "banditsSlain", "finalWaveTotalKills"}

QUEST_BOOL_KEYS ==
  {"gotPelt", "direDefeated", "foundCrowbar", "openedCave", "caveCrestTaken",
   "askedAboutDarkPrince", "wizardGateOpened", "gotCrest", "crestTauntPlayed",
   "warlordDefeated", "finalWaveStarted", "finalWaveKeyTaken",
   "finalMazeKeyTaken", "finalFangPlaced", "finalSignetPlaced",
   "finalMiniTriggered", "finalMiniDefeated", "finalDarkDefeated"}

QuestKeys == {"stage"} \cup QUEST_NUM_KEYS \cup QUEST_BOOL_KEYS

(***************************************************************************)
(* Small helpers.                                                          *)
(***************************************************************************)
Max(a, b) == IF a >= b THEN a ELSE b
Min(a, b) == IF a <= b THEN a ELSE b

clamp(v, lo, hi) == Max(lo, Min(hi, v))

\* Math.round of the positive rational num/den
Round(num, den) == (2 * num + den) \div (2 * den)

RECURSIVE ISqrtFrom(_, _)
ISqrtFrom(n, k) == IF (k + 1) * (k + 1) > n THEN k ELSE ISqrtFrom(n, k + 1)

\* Math.hypot, truncated to an integer
dist(a, b) ==
  LET dx == a.x - b.x
      dy == a.y - b.y
      big == Max(IF dx < 0 THEN -dx ELSE dx, IF dy < 0 THEN -dy ELSE dy)
  IN ISqrtFrom(dx * dx + dy * dy, big)

(***************************************************************************)
(* Raw client values and their JavaScript conversions.                     *)
(***************************************************************************)
RNum(n) == [t |-> "num", n |-> n]
RBool(b) == [t |-> "bool", n |-> IF b THEN 1 ELSE 0]
RStr == [t |-> "str", n |-> 0]
RUndef == [t |-> "undef", n |-> 0]
\* the number num/den (den > 0), for payload numbers that are no integers
RFrac(num, den) == [t |-> "frac", n |-> num, d |-> den]

\* Number(raw) || 0 : NaN (a non-numeric string, undefined) becomes 0
NumberOr0(raw) == IF raw.t \in {"num", "bool"} THEN raw.n ELSE 0

\* Math.round(Number(raw) || 0): Math.round(x) is floor(x + 1/2)
RoundedNumber(raw) ==
  IF raw.t = "frac" THEN (2 * raw.n + raw.d) \div (2 * raw.d) ELSE NumberOr0(raw)

\* raw === true
IsTrue(raw) == raw.t = "bool" /\ raw.n = 1

\* incoming[key], undefined when the key is absent
Field(incoming, key) == IF key \in DOMAIN incoming THEN incoming[key] ELSE RUndef

(***************************************************************************)
(* Quest state: a record over QuestKeys, numbers for "stage" and the       *)
(* QUEST_NUM_KEYS, booleans for the QUEST_BOOL_KEYS.                       *)
(***************************************************************************)
defaultQuestSync ==
  [k \in QuestKeys |-> IF k \in QUEST_BOOL_KEYS THEN FALSE ELSE 0]

\* sanitizeQuestSync applied to a session's quest record (numbers and
\* booleans): Math.max(0, Number(v) || 0) for numbers, !!v for booleans.
sanitizeQuestSync(q) ==
  [k \in QuestKeys |-> IF k \in QUEST_BOOL_KEYS THEN q[k] = TRUE ELSE Max(0, q[k])]

\* A mutated merge that adopts every reported number (last writer wins).
mergeQuestSyncOverwrite(target, incoming) ==
  LET next(k) == Max(0, NumberOr0(Field(incoming, k)))
      merged == [k \in QuestKeys |->
                   IF k \in QUEST_BOOL_KEYS
                     THEN target[k] \/ IsTrue(Field(incoming, k))
                     ELSE IF k \in DOMAIN incoming THEN next(k) ELSE target[k]]
  IN [quest |-> merged, changed |-> merged # target]

\* A mutated merge that assigns every reported flag (a false report clears it).
mergeQuestSyncAssignFlags(target, incoming) ==
  LET next(k) == Max(0, NumberOr0(Field(incoming, k)))
      merged == [k \in QuestKeys |->
                   IF k \in QUEST_BOOL_KEYS
                     THEN (IF k \in DOMAIN incoming THEN IsTrue(Field(incoming, k))
                           ELSE target[k])
                     ELSE Max(target[k], next(k))]
  IN [quest |-> merged, changed |-> merged # target]

\* mergeQuestSync mutates target and returns changed; here it returns both.
\* incoming is always an object where the handlers call it.
mergeQuestSync(target, incoming) ==
  LET next(k) == Max(0, NumberOr0(Field(incoming, k)))
      adopt(k) == IF k \in QUEST_BOOL_KEYS
                    THEN IsTrue(Field(incoming, k)) /\ ~target[k]
                    ELSE next(k) > target[k]
  IN [quest |-> [k \in QuestKeys |->
                   IF ~adopt(k) THEN target[k]
                   ELSE IF k \in QUEST_BOOL_KEYS THEN TRUE ELSE next(k)],
      changed |-> \E k \in QuestKeys : adopt(k)]

(***************************************************************************)
(* Enemies.                                                                *)
(***************************************************************************)
roomDifficultyMult10(room) ==
  IF room.difficulty \in DOMAIN DIFFICULTY_MULT10
    THEN DIFFICULTY_MULT10[room.difficulty] ELSE 10

connectedPlayers(room) == SelectSeq(room.players, LAMBDA p : p.connected)

roomPartySize(room) == Max(1, Len(connectedPlayers(room)))

\* Math.random() as thousandths; a spawn position is drawn per enemy
SpawnDraws == {<<718, 60>>}

randomWolfPos(u) ==
  [x |-> 1000 + (u[1] * 780) \div 1000, y |-> 150 + (u[2] * 840) \div 1000]

randomBanditPos(u) ==
  [x |-> 930 + (u[1] * 780) \div 1000, y |-> 280 + (u[2] * 1000) \div 1000]

\* hp = Math.max(1, Math.round(base * 1.5 * diff * party)), base * 1.5 given
\* as base15x2 / 2
ScaledHp(room, base15x2) ==
  Max(1, Round(base15x2 * roomDifficultyMult10(room) * roomPartySize(room), 20))

ScaledDamage(room, base15) == Max(1, Round(base15 * roomDifficultyMult10(room), 10))

createWolf(room, id, u) ==
  [id |-> id, type |-> "wolf", map |-> "silver",
   x |-> randomWolfPos(u).x, y |-> randomWolfPos(u).y, r |-> 15,
   hp |-> ScaledHp(room, 174), maxHp |-> ScaledHp(room, 174),
   damage |-> ScaledDamage(room, 9), speed |-> 104,
   hitCd |-> 0, windup |-> 0, alive |-> TRUE]

createBandit(room, id, u) ==
  [id |-> id, type |-> "bandit", map |-> "iron",
   x |-> randomBanditPos(u).x, y |-> randomBanditPos(u).y, r |-> 16,
   hp |-> ScaledHp(room, 288), maxHp |-> ScaledHp(room, 288),
   damage |-> ScaledDamage(room, 12), speed |-> 110,
   hitCd |-> 0, windup |-> 0, alive |-> TRUE]

\* boss ids "dire_alpha" and "warlord_overseer" are given as 0: a boss is
\* looked up by its type, never by its id
createDireWolf(room) ==
  [id |-> 0, type |-> "dire", map |-> "silver",
   x |-> 1560, y |-> 200, r |-> 23,
   hp |-> ScaledHp(room, 1080), maxHp |-> ScaledHp(room, 1080),
   damage |-> ScaledDamage(room, 18), speed |-> 126,
   hitCd |-> 0, windup |-> 0, alive |-> TRUE]

createWarlord(room) ==
  [id |-> 0, type |-> "warlord", map |-> "cave",
   x |-> 690, y |-> 230, r |-> 24,
   hp |-> ScaledHp(room, 1440), maxHp |-> ScaledHp(room, 1440),
   damage |-> ScaledDamage(room, 24), speed |-> 118,
   hitCd |-> 0, windup |-> 0, alive |-> TRUE]

\* an absent boss (null)
NoEnemy == [type |-> "none"]

\* an absent session (room.game = null)
NoGame == [none |-> TRUE]

HasGame(room) == room.game # NoGame

(***************************************************************************)
(* Session creation and spawning.  u and ub give the Math.random() draws   *)
(* of the spawn positions, by position in the batch.                       *)
(***************************************************************************)
\* A mutated initRoomGame without the "session exists" guard.
initRoomGameAlways(room, u) ==
  [room EXCEPT !.game =
     [questSync |-> defaultQuestSync,
      phase1 |-> [nextWolfId |-> 11,
                  wolves |-> [i \in 1..10 |-> createWolf(room, i, u[i])],
                  lastEmitAt |-> 0],
      phase2 |-> [nextBanditId |-> 1, bandits |-> <<>>,
                  direWolf |-> NoEnemy, warlord |-> NoEnemy]]]

initRoomGame(room, u) ==
  IF HasGame(room) THEN room ELSE initRoomGameAlways(room, u)

\* the same without the clearing of a defeated boss's slot
ensurePhase2SpawnsKeepDefeated(room, ub) ==
  IF ~HasGame(room) THEN room
  ELSE
    LET q == room.game.questSync
        p2 == room.game.phase2
        spawnBandits == q.stage >= 10 /\ Len(p2.bandits) = 0
        bandits1 == IF spawnBandits
                      THEN [i \in 1..10 |-> createBandit(room, p2.nextBanditId + i - 1, ub[i])]
                      ELSE p2.bandits
        nextId1 == IF spawnBandits THEN p2.nextBanditId + 10 ELSE p2.nextBanditId
        dire1 == IF q.stage >= 6 /\ ~q.direDefeated
                    /\ (p2.direWolf = NoEnemy \/ ~p2.direWolf.alive)
                   THEN createDireWolf(room) ELSE p2.direWolf
        dire2 == dire1
        warlord1 == IF q.stage >= 14 /\ ~q.warlordDefeated
                       /\ (p2.warlord = NoEnemy \/ ~p2.warlord.alive)
                      THEN createWarlord(room) ELSE p2.warlord
        warlord2 == warlord1
    IN [room EXCEPT !.game.phase2 =
          [nextBanditId |-> nextId1, bandits |-> bandits1,
           direWolf |-> dire2, warlord |-> warlord2]]

\* the same with the warlord unlocked at the bandits' stage
ensurePhase2SpawnsEarlyWarlord(room, ub) ==
  IF ~HasGame(room) THEN room
  ELSE
    LET q == room.game.questSync
        p2 == room.game.phase2
        spawnBandits == q.stage >= 10 /\ Len(p2.bandits) = 0
        bandits1 == IF spawnBandits
                      THEN [i \in 1..10 |-> createBandit(room, p2.nextBanditId + i - 1, ub[i])]
                      ELSE p2.bandits
        nextId1 == IF spawnBandits THEN p2.nextBanditId + 10 ELSE p2.nextBanditId
        dire1 == IF q.stage >= 6 /\ ~q.direDefeated
                    /\ (p2.direWolf = NoEnemy \/ ~p2.direWolf.alive)
                   THEN createDireWolf(room) ELSE p2.direWolf
        dire2 == IF q.direDefeated THEN NoEnemy ELSE dire1
        warlord1 == IF q.stage >= 10 /\ ~q.warlordDefeated
                       /\ (p2.warlord = NoEnemy \/ ~p2.warlord.alive)
                      THEN createWarlord(room) ELSE p2.warlord
        warlord2 == IF q.warlordDefeated THEN NoEnemy ELSE warlord1
    IN [room EXCEPT !.game.phase2 =
          [nextBanditId |-> nextId1, bandits |-> bandits1,
           direWolf |-> dire2, warlord |-> warlord2]]

ensurePhase2Spawns(room, ub) ==
  IF ~HasGame(room) THEN room
  ELSE
    LET q == room.game.questSync
        p2 == room.game.phase2
        spawnBandits == q.stage >= 10 /\ Len(p2.bandits) = 0
        bandits1 == IF spawnBandits
                      THEN [i \in 1..10 |-> createBandit(room, p2.nextBanditId + i - 1, ub[i])]
                      ELSE p2.bandits
        nextId1 == IF spawnBandits THEN p2.nextBanditId + 10 ELSE p2.nextBanditId
        dire1 == IF q.stage >= 6 /\ ~q.direDefeated
                    /\ (p2.direWolf = NoEnemy \/ ~p2.direWolf.alive)
                   THEN createDireWolf(room) ELSE p2.direWolf
        dire2 == IF q.direDefeated THEN NoEnemy ELSE dire1
        warlord1 == IF q.stage >= 14 /\ ~q.warlordDefeated
                       /\ (p2.warlord = NoEnemy \/ ~p2.warlord.alive)
                      THEN createWarlord(room) ELSE p2.warlord
        warlord2 == IF q.warlordDefeated THEN NoEnemy ELSE warlord1
    IN [room EXCEPT !.game.phase2 =
          [nextBanditId |-> nextId1, bandits |-> bandits1,
           direWolf |-> dire2, warlord |-> warlord2]]

serializeEnemy(e) ==
  IF e = NoEnemy THEN NoEnemy
  ELSE [id |-> e.id, map |-> e.map, type |-> e.type, x |-> e.x, y |-> e.y,
        r |-> e.r, hp |-> e.hp, maxHp |-> e.maxHp, damage |-> e.damage,
        speed |-> e.speed, alive |-> e.alive]

makeGamePublic(room) ==
  LET questSync == sanitizeQuestSync(room.game.questSync)
  IN [quest |-> questSync,
      phase1 |-> [quest |-> [wolvesSlain |-> questSync.wolvesSlain,
                             gotPelt |-> questSync.gotPelt],
                  wolves |-> [i \in 1..Len(room.game.phase1.wolves) |->
                                serializeEnemy(room.game.phase1.wolves[i])]],
      phase2 |-> [quest |-> [banditsSlain |-> questSync.banditsSlain,
                             direDefeated |-> questSync.direDefeated,
                             warlordDefeated |-> questSync.warlordDefeated],
                  bandits |-> [i \in 1..Len(room.game.phase2.bandits) |->
                                 serializeEnemy(room.game.phase2.bandits[i])],
                  direWolf |-> serializeEnemy(room.game.phase2.direWolf),
                  warlord |-> serializeEnemy(room.game.phase2.warlord)]]

makeRoomPublic(room) ==
  [id |-> room.id, difficulty |-> room.difficulty, maxPlayers |-> room.maxPlayers,
   started |-> room.started,
   players |-> [i \in 1..Len(connectedPlayers(room)) |->
                  [id |-> connectedPlayers(room)[i].id,
                   ready |-> connectedPlayers(room)[i].ready,
                   leader |-> connectedPlayers(room)[i].leader,
                   state |-> connectedPlayers(room)[i].state]]]

(***************************************************************************)
(* Broadcasts: the events one handler run emits, in order.                 *)
(***************************************************************************)
EvRoomUpdate(room) == [ev |-> "room:update", to |-> room.id, data |-> makeRoomPublic(room)]

EvGameStart(room) ==
  [ev |-> "game:start", to |-> room.id,
   data |-> [difficulty |-> room.difficulty,
             playerCount |-> Len(connectedPlayers(room))]]

\* emitQuestSync and emitGameState emit nothing for a room without a session
emitQuestSync(room) ==
  IF HasGame(room)
    THEN <<[ev |-> "quest:sync", to |-> room.id,
            data |-> sanitizeQuestSync(room.game.questSync)]>>
    ELSE <<>>

emitGameState(room) ==
  IF HasGame(room)
    THEN <<[ev |-> "game:state", to |-> room.id, data |-> makeGamePublic(room)]>>
    ELSE <<>>

(***************************************************************************)
(* Enemy simulation.  dt is in milliseconds; w is the unit direction       *)
(* <<wx, wy>> of the wander heading.  Distances are compared by their      *)
(* squares; a pursuit or wander step is truncated to whole units.          *)
(***************************************************************************)
\* direction pairs drawn for the wander heading of one tick
WanderDirs == {<<1, 0>>}

activePlayersOnMap(room, mapId) ==
  SelectSeq(connectedPlayers(room), LAMBDA p : p.state.map = mapId)

roomLeader(room) ==
  LET active == connectedPlayers(room)
      leaders == SelectSeq(active, LAMBDA p : p.leader)
  IN IF Len(leaders) > 0 THEN leaders[1]
     ELSE IF Len(active) > 0 THEN active[1]
     ELSE [id |-> 0]

Dist2(a, b) == (a.x - b.x) * (a.x - b.x) + (a.y - b.y) * (a.y - b.y)

\* the first player at the least distance (d < targetDist keeps the earlier)
NearestIdx(enemy, players) ==
  CHOOSE i \in 1..Len(players) :
    /\ \A j \in 1..Len(players) : Dist2(enemy, players[i].state) <= Dist2(enemy, players[j].state)
    /\ \A j \in 1..(i - 1) : Dist2(enemy, players[j].state) > Dist2(enemy, players[i].state)

\* the same without the clamp into the leash
updateEnemyAINoClamp(enemy, players, dt, leash, w) ==
  IF ~enemy.alive THEN enemy
  ELSE
    LET hitCd1 == Max(0, enemy.hitCd - dt)
    IN IF enemy.windup > 0
         THEN [enemy EXCEPT
                 !.windup = enemy.windup - dt,
                 !.hitCd = IF enemy.windup - dt <= 0
                             THEN (IF enemy.type = "warlord" THEN 900 ELSE 1050)
                             ELSE hitCd1]
         ELSE
           LET hasTarget == Len(players) > 0
               target == IF hasTarget THEN players[NearestIdx(enemy, players)].state
                         ELSE [x |-> enemy.x, y |-> enemy.y]
               d2 == Dist2(enemy, target)
               d == IF dist(enemy, target) = 0 THEN 1 ELSE dist(enemy, target)
               chase == hasTarget /\ d2 < AggroRadius * AggroRadius
               contact == enemy.r + 14 + 14
               x1 == IF chase
                       THEN enemy.x + ((target.x - enemy.x) * enemy.speed * dt) \div (d * 1000)
                       ELSE enemy.x + w[1] * ((38 * dt) \div 1000)
               y1 == IF chase
                       THEN enemy.y + ((target.y - enemy.y) * enemy.speed * dt) \div (d * 1000)
                       ELSE enemy.y + w[2] * ((38 * dt) \div 1000)
           IN [enemy EXCEPT
                 !.hitCd = hitCd1,
                 !.windup = IF chase /\ d2 < contact * contact /\ hitCd1 <= 0
                              THEN (IF enemy.type = "warlord" THEN 480
                                    ELSE IF enemy.type = "dire" THEN 420 ELSE 340)
                              ELSE enemy.windup,
                 !.x = x1,
                 !.y = y1]

updateEnemyAI(enemy, players, dt, leash, w) ==
  IF ~enemy.alive THEN enemy
  ELSE
    LET hitCd1 == Max(0, enemy.hitCd - dt)
    IN IF enemy.windup > 0
         THEN [enemy EXCEPT
                 !.windup = enemy.windup - dt,
                 !.hitCd = IF enemy.windup - dt <= 0
                             THEN (IF enemy.type = "warlord" THEN 900 ELSE 1050)
                             ELSE hitCd1]
         ELSE
           LET hasTarget == Len(players) > 0
               target == IF hasTarget THEN players[NearestIdx(enemy, players)].state
                         ELSE [x |-> enemy.x, y |-> enemy.y]
               d2 == Dist2(enemy, target)
               d == IF dist(enemy, target) = 0 THEN 1 ELSE dist(enemy, target)
               chase == hasTarget /\ d2 < AggroRadius * AggroRadius
               contact == enemy.r + 14 + 14
               x1 == IF chase
                       THEN enemy.x + ((target.x - enemy.x) * enemy.speed * dt) \div (d * 1000)
                       ELSE enemy.x + w[1] * ((38 * dt) \div 1000)
               y1 == IF chase
                       THEN enemy.y + ((target.y - enemy.y) * enemy.speed * dt) \div (d * 1000)
                       ELSE enemy.y + w[2] * ((38 * dt) \div 1000)
           IN [enemy EXCEPT
                 !.hitCd = hitCd1,
                 !.windup = IF chase /\ d2 < contact * contact /\ hitCd1 <= 0
                              THEN (IF enemy.type = "warlord" THEN 480
                                    ELSE IF enemy.type = "dire" THEN 420 ELSE 340)
                              ELSE enemy.windup,
                 !.x = clamp(x1, leash.minX, leash.maxX),
                 !.y = clamp(y1, leash.minY, leash.maxY)]

AliveCount(pool) == Cardinality({i \in 1..Len(pool) : pool[i].alive})

\* the pools after the AI pass and the top-ups, for a room whose phase-2
\* spawns are settled.  u and ub: spawn draws of the wolf and bandit top-ups
simulateEnemies(room1, dt, w, u, ub) ==
  LET game == room1.game
      q == room1.game.questSync
      silverPlayers == activePlayersOnMap(room1, "silver")
      ironPlayers == activePlayersOnMap(room1, "iron")
      cavePlayers == activePlayersOnMap(room1, "cave")
      wolves1 == [i \in 1..Len(room1.game.phase1.wolves) |->
                    updateEnemyAI(room1.game.phase1.wolves[i], silverPlayers, dt, WOLF_LEASH, w)]
      topWolves == AliveCount(wolves1) < 5
      bandits1 == IF q.stage >= 10
                    THEN [i \in 1..Len(room1.game.phase2.bandits) |->
                            updateEnemyAI(room1.game.phase2.bandits[i], ironPlayers, dt, BANDIT_LEASH, w)]
                    ELSE room1.game.phase2.bandits
      topBandits == q.stage >= 10 /\ AliveCount(bandits1) < 5
  IN [room1 EXCEPT
        !.game.phase1.wolves =
           IF topWolves
             THEN wolves1 \o [i \in 1..3 |->
                    createWolf(room1, room1.game.phase1.nextWolfId + i - 1, u[i])]
             ELSE wolves1,
        !.game.phase1.nextWolfId = IF topWolves THEN @ + 3 ELSE @,
        !.game.phase2.bandits =
           IF topBandits
             THEN bandits1 \o [i \in 1..4 |->
                    createBandit(room1, room1.game.phase2.nextBanditId + i - 1, ub[i])]
             ELSE bandits1,
        !.game.phase2.nextBanditId = IF topBandits THEN @ + 4 ELSE @,
        !.game.phase2.direWolf =
           IF @ # NoEnemy /\ ~q.direDefeated
             THEN updateEnemyAI(room1.game.phase2.direWolf, silverPlayers, dt, DIRE_LEASH, w)
             ELSE @,
        !.game.phase2.warlord =
           IF @ # NoEnemy /\ ~q.warlordDefeated
             THEN updateEnemyAI(room1.game.phase2.warlord, cavePlayers, dt, WARLORD_CAVE_LEASH, w)
             ELSE @]

\* (intermediate results are bound by a quantifier, so each is computed once)
updateRoomEnemies(room, dt, w, u, ub) ==
  IF ~HasGame(room) THEN room
  ELSE CHOOSE out \in {simulateEnemies(room1, dt, w, u, ub) :
                         room1 \in {ensurePhase2Spawns(room, ub)}} : TRUE

(***************************************************************************)
(* Combat.                                                                 *)
(***************************************************************************)
\* A range check that rejects a blow from exactly the maximal distance.
withinMeleeRangeStrict(playerState, enemy, isHeavy) ==
  LET range == IF isHeavy THEN 96 ELSE 68
      dx == playerState.x - enemy.x
      dy == playerState.y - enemy.y
      maxDist == range + enemy.r + 20
  IN dx * dx + dy * dy < maxDist * maxDist

withinMeleeRange(playerState, enemy, isHeavy) ==
  LET range == IF isHeavy THEN 96 ELSE 68
      dx == playerState.x - enemy.x
      dy == playerState.y - enemy.y
      maxDist == range + enemy.r + 20
  IN dx * dx + dy * dy <= maxDist * maxDist

\* A blow whose damage has no lower bound.
applyEnemyDamageNoFloor(enemy, amount) ==
  LET dmg == Min(RoundedNumber(amount), 999)
  IN IF enemy.hp - dmg <= 0
       THEN [enemy |-> [enemy EXCEPT !.hp = 0, !.alive = FALSE], killed |-> TRUE]
       ELSE [enemy |-> [enemy EXCEPT !.hp = enemy.hp - dmg], killed |-> FALSE]

\* A lethal blow that leaves the hit points below zero.
applyEnemyDamageKeepHp(enemy, amount) ==
  LET dmg == clamp(RoundedNumber(amount), 1, 999)
  IN IF enemy.hp - dmg <= 0
       THEN [enemy |-> [enemy EXCEPT !.hp = enemy.hp - dmg, !.alive = FALSE],
             killed |-> TRUE]
       ELSE [enemy |-> [enemy EXCEPT !.hp = enemy.hp - dmg], killed |-> FALSE]

\* returns the enemy after the blow and whether it was lethal
applyEnemyDamage(enemy, amount) ==
  LET dmg == clamp(RoundedNumber(amount), 1, 999)
  IN IF enemy.hp - dmg <= 0
       THEN [enemy |-> [enemy EXCEPT !.hp = 0, !.alive = FALSE], killed |-> TRUE]
       ELSE [enemy |-> [enemy EXCEPT !.hp = enemy.hp - dmg], killed |-> FALSE]

(***************************************************************************)
(* Membership sweep.                                                       *)
(***************************************************************************)
HasConnectedLeader(players) ==
  \E i \in 1..Len(players) : players[i].leader /\ players[i].connected

\* index of the first connected slot, 0 when there is none
FirstConnectedIdx(players) ==
  IF \E i \in 1..Len(players) : players[i].connected
    THEN CHOOSE i \in 1..Len(players) :
           players[i].connected /\ \A j \in 1..(i - 1) : ~players[j].connected
    ELSE 0

\* A prune that drops a slot as soon as the grace period is reached.
pruneRoomStaleMembersEarly(room, t) ==
  LET kept == SelectSeq(room.players,
                LAMBDA p : p.connected \/ t - p.disconnectedAt < PLAYER_RECONNECT_GRACE_MS)
      fc == FirstConnectedIdx(kept)
  IN [room EXCEPT !.players =
        IF Len(kept) > 0 /\ ~HasConnectedLeader(kept) /\ fc # 0
          THEN [kept EXCEPT ![fc].leader = TRUE]
          ELSE kept]

pruneRoomStaleMembers(room, t) ==
  LET kept == SelectSeq(room.players,
                LAMBDA p : p.connected \/ t - p.disconnectedAt <= PLAYER_RECONNECT_GRACE_MS)
      fc == FirstConnectedIdx(kept)
  IN [room EXCEPT !.players =
        IF Len(kept) > 0 /\ ~HasConnectedLeader(kept) /\ fc # 0
          THEN [kept EXCEPT ![fc].leader = TRUE]
          ELSE kept]

(***************************************************************************)
(* State.                                                                  *)
(*   rooms        roomId -> room (the rooms Map); a room is                *)
(*                [id, code, difficulty, maxPlayers, started, emptySince,  *)
(*                 game, players]                                          *)
(*   playerRoom   socket -> roomId, 0 for a socket without an entry        *)
(*   nextRoomId   the id makeRoomId gives next (ids are never reused)      *)
(*   sockets      socket -> "new" | "live" | "closed"                      *)
(*   now          the wall clock (Date.now())                              *)
(*   lastTickAt   the clock at the last tick                               *)
(*   ack          the acknowledgment of the last handler run               *)
(*   emits        the broadcasts of the last handler run, in order         *)
(***************************************************************************)
VARIABLES rooms, playerRoom, nextRoomId, sockets, now, lastTickAt, ack, emits

vars == <<rooms, playerRoom, nextRoomId, sockets, now, lastTickAt, ack, emits>>

Sockets == 1..MaxSockets
RoomIds == 1..MaxRooms

\* the clock at start-up
StartTime == 1000000

NullState == [map |-> "null", x |-> 0, y |-> 0]
NoAck == [op |-> "none"]

WolfDraws == [1..10 -> SpawnDraws]

normalizeClientId(raw, socketId) ==
  IF raw # "" THEN [kind |-> "client", v |-> raw, n |-> 0]
  ELSE [kind |-> "sock", v |-> "", n |-> socketId]

\* payload.roomId || playerRoom.get(socket.id)
ResolveRoomId(ridRaw, s) == IF ridRaw # 0 THEN ridRaw ELSE playerRoom[s]

HasRoom(rid) == rid \in DOMAIN rooms

\* index of the first slot bound to socket s / held by client cid, 0 if none
SlotOfSocket(players, s) ==
  IF \E i \in 1..Len(players) : players[i].id = s
    THEN CHOOSE i \in 1..Len(players) :
           players[i].id = s /\ \A j \in 1..(i - 1) : players[j].id # s
    ELSE 0

SlotOfClient(players, cid) ==
  IF \E i \in 1..Len(players) : players[i].clientId = cid
    THEN CHOOSE i \in 1..Len(players) :
           players[i].clientId = cid /\ \A j \in 1..(i - 1) : players[j].clientId # cid
    ELSE 0

\* rooms.delete(rid)
DeleteRoom(rs, rid) == [r \in (DOMAIN rs) \ {rid} |-> rs[r]]

Init ==
  /\ rooms = <<>>
  /\ playerRoom = [s \in Sockets |-> 0]
  /\ nextRoomId = 1
  /\ sockets = [s \in Sockets |-> "new"]
  /\ now = StartTime
  /\ lastTickAt = StartTime
  /\ ack = NoAck
  /\ emits = <<>>

(***************************************************************************)
(* io.on("connection"): sockets connect in the order of their ids.         *)
(***************************************************************************)
Connect(s) ==
  /\ sockets[s] = "new"
  /\ \A t \in 1..(s - 1) : sockets[t] # "new"
  /\ sockets' = [sockets EXCEPT ![s] = "live"]
  /\ ack' = NoAck
  /\ emits' = <<>>
  /\ UNCHANGED <<rooms, playerRoom, nextRoomId, now, lastTickAt>>

(***************************************************************************)
(* room:create                                                             *)
(***************************************************************************)
NewHostSlot(s, cid) ==
  [id |-> s, clientId |-> cid, ready |-> FALSE, leader |-> TRUE,
   connected |-> TRUE, disconnectedAt |-> 0, state |-> NullState]

NewGuestSlot(s, cid) ==
  [id |-> s, clientId |-> cid, ready |-> FALSE, leader |-> FALSE,
   connected |-> TRUE, disconnectedAt |-> 0, state |-> NullState]

\* Number(raw) as the fraction n/d (d > 0), NaN as 0
NumberOf(raw) ==
  IF raw.t = "frac" THEN [n |-> raw.n, d |-> raw.d] ELSE [n |-> NumberOr0(raw), d |-> 1]

\* Math.max(1, Math.min(4, Number(raw) || 1)): the capacity as a fraction n/d;
\* a number between 1 and 4 is kept as it is, whole or not
ClampMaxPlayers(raw) ==
  LET v == IF NumberOf(raw).n = 0 THEN [n |-> 1, d |-> 1] ELSE NumberOf(raw)
  IN IF v.n <= v.d THEN [n |-> 1, d |-> 1]
     ELSE IF v.n >= 4 * v.d THEN [n |-> 4, d |-> 1]
     ELSE v

\* room.players.length >= room.maxPlayers
AtCapacity(room) == Len(room.players) * room.maxPlayers.d >= room.maxPlayers.n

RoomCreate(s, cidRaw, code, diff, maxRaw) ==
  /\ sockets[s] = "live"
  /\ nextRoomId <= MaxRooms
  /\ LET room == [id |-> nextRoomId, code |-> code, difficulty |-> diff,
                  maxPlayers |-> ClampMaxPlayers(maxRaw),
                  started |-> FALSE, emptySince |-> 0, game |-> NoGame,
                  players |-> <<NewHostSlot(s, normalizeClientId(cidRaw, s))>>]
     IN /\ rooms' = [r \in (DOMAIN rooms) \cup {nextRoomId} |->
                       IF r = nextRoomId THEN room ELSE rooms[r]]
        /\ playerRoom' = [playerRoom EXCEPT ![s] = nextRoomId]
        /\ ack' = [op |-> "room:create", ok |-> TRUE, error |-> "",
                   room |-> makeRoomPublic(room)]
        /\ emits' = <<EvRoomUpdate(room)>>
  /\ nextRoomId' = nextRoomId + 1
  /\ UNCHANGED <<sockets, now, lastTickAt>>

\* A failure acknowledgment that carries no error tag.
FailUntagged(op, error) == [op |-> op, ok |-> FALSE, error |-> ""]

\* ack({ ok: false, error })
Fail(op, error) == [op |-> op, ok |-> FALSE, error |-> error]

\* A rebind that hands out a fresh slot: the flags are those of a new guest.
RebindResetFlags(players, i, s) ==
  [players EXCEPT ![i].id = s, ![i].connected = TRUE, ![i].disconnectedAt = 0,
                  ![i].ready = FALSE, ![i].leader = FALSE]

\* the slot at index i rebound to socket s (room:join of a known client,
\* room:reconnect)
Rebind(players, i, s) ==
  [players EXCEPT ![i].id = s, ![i].connected = TRUE, ![i].disconnectedAt = 0]

\* A reindex that leaves the entry of the old connection in place.
ReindexKeepOld(pr, oldSocketId, s, rid) ==
  [pr EXCEPT ![s] = rid]

\* playerRoom after a rebind from oldSocketId to s in room rid
\* (a slot's id is always a socket id, so oldSocketId is truthy)
Reindex(pr, oldSocketId, s, rid) ==
  [t \in Sockets |-> IF t = s THEN rid
                     ELSE IF t = oldSocketId THEN 0 ELSE pr[t]]

(***************************************************************************)
(* room:join                                                               *)
(***************************************************************************)
\* A join that breaks the precedence of the errors: the code is compared
\* before the started flag is looked at.
JoinErrorCodeFirst(room, cid, code) ==
  IF SlotOfClient(room.players, cid) # 0 THEN ""
  ELSE IF room.code # code THEN "Wrong room code"
  ELSE IF room.started THEN "Room already started"
  ELSE IF AtCapacity(room) THEN "Room full"
  ELSE ""

\* the error of a room:join on an existing room, "" when the join goes through
JoinError(room, cid, code) ==
  IF SlotOfClient(room.players, cid) # 0 THEN ""
  ELSE IF room.started THEN "Room already started"
  ELSE IF room.code # code THEN "Wrong room code"
  ELSE IF AtCapacity(room) THEN "Room full"
  ELSE ""

RoomJoin(s, rid, cidRaw, code) ==
  /\ sockets[s] = "live"
  /\ UNCHANGED <<nextRoomId, sockets, now, lastTickAt>>
  /\ IF ~HasRoom(rid)
       THEN /\ ack' = Fail("room:join", "Room not found")
            /\ emits' = <<>>
            /\ UNCHANGED <<rooms, playerRoom>>
       ELSE
         LET room == rooms[rid]
             cid == normalizeClientId(cidRaw, s)
             existing == SlotOfClient(room.players, cid)
             err == JoinError(room, cid, code)
             players1 == IF existing = 0
                           THEN Append(room.players, NewGuestSlot(s, cid))
                           ELSE Rebind(room.players, existing, s)
             room1 == [room EXCEPT !.players = players1, !.emptySince = 0]
         IN IF err # ""
              THEN /\ ack' = Fail("room:join", err)
                   /\ emits' = <<>>
                   /\ UNCHANGED <<rooms, playerRoom>>
              ELSE /\ rooms' = [rooms EXCEPT ![rid] = room1]
                   /\ playerRoom' =
                        IF existing = 0 THEN [playerRoom EXCEPT ![s] = rid]
                        ELSE Reindex(playerRoom, room.players[existing].id, s, rid)
                   /\ ack' = [op |-> "room:join", ok |-> TRUE, error |-> "",
                              room |-> makeRoomPublic(room1)]
                   /\ emits' = <<EvRoomUpdate(room1)>>
                        \o (IF room1.started
                              THEN emitQuestSync(room1) \o emitGameState(room1)
                              ELSE <<>>)

(***************************************************************************)
(* room:reconnect                                                          *)
(***************************************************************************)
\* the state and quest snapshots of the acknowledgment; null is NoGame
ReconnectAck(room) ==
  [op |-> "room:reconnect", ok |-> TRUE, error |-> "",
   room |-> makeRoomPublic(room),
   state |-> IF room.started /\ HasGame(room) THEN makeGamePublic(room) ELSE NoGame,
   quest |-> IF room.started /\ HasGame(room)
               THEN sanitizeQuestSync(room.game.questSync) ELSE NoGame]

RoomReconnect(s, rid, cidRaw) ==
  /\ sockets[s] = "live"
  /\ UNCHANGED <<nextRoomId, sockets, now, lastTickAt>>
  /\ IF ~HasRoom(rid)
       THEN /\ ack' = Fail("room:reconnect", "Room not found")
            /\ emits' = <<>>
            /\ UNCHANGED <<rooms, playerRoom>>
       ELSE
         LET room == rooms[rid]
             i == SlotOfClient(room.players, normalizeClientId(cidRaw, s))
         IN IF i = 0
              THEN /\ ack' = Fail("room:reconnect", "Player slot not found")
                   /\ emits' = <<>>
                   /\ UNCHANGED <<rooms, playerRoom>>
              ELSE
                LET room1 == [room EXCEPT !.players = Rebind(room.players, i, s),
                                          !.emptySince = 0]
                IN /\ rooms' = [rooms EXCEPT ![rid] = room1]
                   /\ playerRoom' = Reindex(playerRoom, room.players[i].id, s, rid)
                   /\ ack' = ReconnectAck(room1)
                   /\ emits' = <<EvRoomUpdate(room1)>>
                        \o (IF room1.started
                              THEN emitQuestSync(room1) \o emitGameState(room1)
                              ELSE <<>>)

(***************************************************************************)
(* room:ready (no acknowledgment)                                          *)
(***************************************************************************)
AllReady(room) ==
  /\ Len(connectedPlayers(room)) > 0
  /\ \A i \in 1..Len(connectedPlayers(room)) : connectedPlayers(room)[i].ready

RoomReady(s, ridRaw, ready, u) ==
  /\ sockets[s] = "live"
  /\ UNCHANGED <<playerRoom, nextRoomId, sockets, now, lastTickAt>>
  /\ ack' = NoAck
  /\ LET rid == ResolveRoomId(ridRaw, s)
         i == IF HasRoom(rid) THEN SlotOfSocket(rooms[rid].players, s) ELSE 0
     IN IF i = 0
          THEN /\ emits' = <<>>
               /\ UNCHANGED rooms
          ELSE
            LET room1 == [rooms[rid] EXCEPT !.players[i].connected = TRUE,
                                            !.players[i].disconnectedAt = 0,
                                            !.players[i].ready = ready]
                room2 == initRoomGame([room1 EXCEPT !.started = TRUE], u)
            IN IF AllReady(room1)
                 THEN /\ rooms' = [rooms EXCEPT ![rid] = room2]
                      /\ emits' = <<EvRoomUpdate(room1), EvGameStart(room2),
                                    EvRoomUpdate(room2)>>
                                  \o emitQuestSync(room2) \o emitGameState(room2)
                 ELSE /\ rooms' = [rooms EXCEPT ![rid] = room1]
                      /\ emits' = <<EvRoomUpdate(room1)>>

(***************************************************************************)
(* player:state (no acknowledgment; relayed to the other members)          *)
(***************************************************************************)
PlayerState(s, ridRaw, st) ==
  /\ sockets[s] = "live"
  /\ UNCHANGED <<playerRoom, nextRoomId, sockets, now, lastTickAt>>
  /\ ack' = NoAck
  /\ LET rid == ResolveRoomId(ridRaw, s)
         i == IF HasRoom(rid) /\ rooms[rid].started
                THEN SlotOfSocket(rooms[rid].players, s) ELSE 0
     IN IF i = 0
          THEN /\ emits' = <<>>
               /\ UNCHANGED rooms
          ELSE /\ rooms' = [rooms EXCEPT ![rid].players[i].state = st,
                                         ![rid].players[i].connected = TRUE,
                                         ![rid].players[i].disconnectedAt = 0]
               /\ emits' = <<[ev |-> "player:state", to |-> rid,
                              data |-> [id |-> s, state |-> st]]>>

(***************************************************************************)
(* quest:sync.  A payload is [stage, quest]: stage a raw value, quest a    *)
(* function from reported keys to raw values.                              *)
(***************************************************************************)
\* { stage: Number(payload.stage) || 0, ...payload.quest }
Incoming(payload) ==
  [k \in {"stage"} \cup DOMAIN payload.quest |->
     IF k \in DOMAIN payload.quest THEN payload.quest[k]
     ELSE RNum(NumberOr0(payload.stage))]

\* Broadcasts that go out whether or not the merge changed anything.
QuestSyncBroadcastsAlways(room, changed) ==
  emitQuestSync(room) \o emitGameState(room)

\* if (changed) { emitQuestSync(room.id); emitGameState(room.id); }
QuestSyncBroadcasts(room, changed) ==
  IF changed THEN emitQuestSync(room) \o emitGameState(room) ELSE <<>>

QuestSync(s, ridRaw, payload, u, ub) ==
  /\ sockets[s] = "live"
  /\ UNCHANGED <<playerRoom, nextRoomId, sockets, now, lastTickAt>>
  /\ LET rid == ResolveRoomId(ridRaw, s)
     IN IF ~HasRoom(rid) \/ ~rooms[rid].started
          THEN /\ ack' = Fail("quest:sync", "Room not active")
               /\ emits' = <<>>
               /\ UNCHANGED rooms
          ELSE
            LET room1 == initRoomGame(rooms[rid], u)
                m == mergeQuestSync(room1.game.questSync, Incoming(payload))
                room2 == ensurePhase2Spawns([room1 EXCEPT !.game.questSync = m.quest], ub)
            IN /\ rooms' = [rooms EXCEPT ![rid] = room2]
               /\ emits' = QuestSyncBroadcasts(room2, m.changed)
               /\ ack' = [op |-> "quest:sync", ok |-> TRUE, error |-> "",
                          quest |-> sanitizeQuestSync(room2.game.questSync)]

(***************************************************************************)
(* quest:phase1:update                                                     *)
(***************************************************************************)
Phase1Quest(room) ==
  [wolvesSlain |-> room.game.questSync.wolvesSlain,
   gotPelt |-> room.game.questSync.gotPelt]

QuestPhase1Update(s, ridRaw, gotPelt, u) ==
  /\ sockets[s] = "live"
  /\ UNCHANGED <<playerRoom, nextRoomId, sockets, now, lastTickAt>>
  /\ LET rid == ResolveRoomId(ridRaw, s)
     IN IF ~HasRoom(rid) \/ ~rooms[rid].started
          THEN /\ ack' = Fail("quest:phase1:update", "Room not active")
               /\ emits' = <<>>
               /\ UNCHANGED rooms
          ELSE
            LET room1 == initRoomGame(rooms[rid], u)
                m == mergeQuestSync(room1.game.questSync,
                                    [k \in {"gotPelt"} |-> RBool(IsTrue(gotPelt))])
                room2 == [room1 EXCEPT !.game.questSync = m.quest]
            IN /\ rooms' = [rooms EXCEPT ![rid] = room2]
               /\ emits' = IF m.changed
                             THEN <<[ev |-> "quest:phase1:update", to |-> rid,
                                     data |-> Phase1Quest(room2)]>>
                                  \o emitQuestSync(room2) \o emitGameState(room2)
                             ELSE <<>>
               /\ ack' = [op |-> "quest:phase1:update", ok |-> TRUE,
                          error |-> "", quest |-> Phase1Quest(room2)]

(***************************************************************************)
(* wolf:hit and enemy:hit                                                  *)
(***************************************************************************)
\* Broadcasts of a blow that send the snapshot ahead of the slain event.
HitBroadcastsStateFirst(room, slain, killed) ==
  emitGameState(room)
    \o (IF killed THEN <<slain>> \o emitQuestSync(room) ELSE <<>>)

\* the broadcasts of an accepted blow: on a kill the slain event and
\* quest:sync, then game:state in every case
HitBroadcasts(room, slain, killed) ==
  (IF killed THEN <<slain>> \o emitQuestSync(room) ELSE <<>>)
    \o emitGameState(room)

\* A lookup that also finds dead enemies.
LiveIdxAny(pool, id) ==
  IF \E i \in 1..Len(pool) : pool[i].id = id
    THEN CHOOSE i \in 1..Len(pool) :
           pool[i].id = id /\ \A j \in 1..(i - 1) : pool[j].id # id
    ELSE 0

\* index of the live enemy of the pool with this id, 0 if none
LiveIdx(pool, id) ==
  IF \E i \in 1..Len(pool) : pool[i].id = id /\ pool[i].alive
    THEN CHOOSE i \in 1..Len(pool) :
           /\ pool[i].id = id /\ pool[i].alive
           /\ \A j \in 1..(i - 1) : ~(pool[j].id = id /\ pool[j].alive)
    ELSE 0

\* the error of a wolf:hit, "" when the blow is accepted
WolfHitError(room, s, wolfId, heavy) ==
  LET pi == SlotOfSocket(room.players, s)
      wi == LiveIdx(room.game.phase1.wolves, wolfId)
  IN IF pi = 0 \/ room.players[pi].state = NullState
          \/ room.players[pi].state.map # "silver"
       THEN "Player not in Silver Keep"
     ELSE IF wi = 0 THEN "Wolf not found"
     ELSE IF ~withinMeleeRange(room.players[pi].state, room.game.phase1.wolves[wi], heavy)
       THEN "Out of range"
     ELSE ""

WolfHit(s, ridRaw, wolfId, heavy, damage, u) ==
  /\ sockets[s] = "live"
  /\ UNCHANGED <<playerRoom, nextRoomId, sockets, now, lastTickAt>>
  /\ LET rid == ResolveRoomId(ridRaw, s)
     IN IF ~HasRoom(rid) \/ ~rooms[rid].started
          THEN /\ ack' = Fail("wolf:hit", "Room not active")
               /\ emits' = <<>>
               /\ UNCHANGED rooms
          ELSE
            LET room1 == initRoomGame(rooms[rid], u)
                err == WolfHitError(room1, s, wolfId, heavy)
                wi == LiveIdx(room1.game.phase1.wolves, wolfId)
                hit == applyEnemyDamage(room1.game.phase1.wolves[wi], damage)
                room2 == [room1 EXCEPT
                            !.game.phase1.wolves[wi] = hit.enemy,
                            !.game.questSync.wolvesSlain =
                               IF hit.killed THEN @ + 1 ELSE @]
            IN IF err # ""
                 THEN /\ rooms' = [rooms EXCEPT ![rid] = room1]
                      /\ ack' = Fail("wolf:hit", err)
                      /\ emits' = <<>>
                 ELSE /\ rooms' = [rooms EXCEPT ![rid] = room2]
                      /\ emits' =
                           HitBroadcasts(room2,
                             [ev |-> "wolf:slain", to |-> rid,
                              data |-> [wolfId |-> hit.enemy.id, killerId |-> s,
                                        wolvesSlain |-> room2.game.questSync.wolvesSlain,
                                        gotPelt |-> room2.game.questSync.gotPelt,
                                        x |-> hit.enemy.x, y |-> hit.enemy.y]],
                             hit.killed)
                      /\ ack' = [op |-> "wolf:hit", ok |-> TRUE, error |-> "",
                                 killed |-> hit.killed, hp |-> hit.enemy.hp]

\* the target of an enemy:hit: NoEnemy when there is no live target
HitTarget(room, enemyType, enemyId) ==
  LET p2 == room.game.phase2
      bi == LiveIdx(p2.bandits, enemyId)
  IN IF enemyType = "bandit"
       THEN (IF bi = 0 THEN NoEnemy ELSE p2.bandits[bi])
     ELSE IF enemyType = "dire"
       THEN (IF p2.direWolf # NoEnemy /\ p2.direWolf.alive THEN p2.direWolf ELSE NoEnemy)
     ELSE IF enemyType = "warlord"
       THEN (IF p2.warlord # NoEnemy /\ p2.warlord.alive THEN p2.warlord ELSE NoEnemy)
     ELSE NoEnemy

EnemyHitError(room, s, enemyType, enemyId, heavy) ==
  LET pi == SlotOfSocket(room.players, s)
      enemy == HitTarget(room, enemyType, enemyId)
  IN IF pi = 0 \/ room.players[pi].state = NullState THEN "Missing player state"
     ELSE IF enemy = NoEnemy THEN "Enemy not found"
     ELSE IF room.players[pi].state.map # enemy.map THEN "Wrong map"
     ELSE IF ~withinMeleeRange(room.players[pi].state, enemy, heavy) THEN "Out of range"
     ELSE ""

\* the session after a blow on the target left it as hit.enemy
AfterEnemyHit(room, enemyType, enemyId, hit) ==
  IF enemyType = "bandit"
    THEN [room EXCEPT
            !.game.phase2.bandits[LiveIdx(room.game.phase2.bandits, enemyId)] = hit.enemy,
            !.game.questSync.banditsSlain = IF hit.killed THEN @ + 1 ELSE @]
  ELSE IF enemyType = "dire"
    THEN [room EXCEPT
            !.game.phase2.direWolf = IF hit.killed THEN NoEnemy ELSE hit.enemy,
            !.game.questSync.direDefeated = IF hit.killed THEN TRUE ELSE @]
  ELSE [room EXCEPT
          !.game.phase2.warlord = IF hit.killed THEN NoEnemy ELSE hit.enemy,
          !.game.questSync.warlordDefeated = IF hit.killed THEN TRUE ELSE @]

EnemyHit(s, ridRaw, enemyType, enemyId, heavy, damage, u) ==
  /\ sockets[s] = "live"
  /\ UNCHANGED <<playerRoom, nextRoomId, sockets, now, lastTickAt>>
  /\ LET rid == ResolveRoomId(ridRaw, s)
     IN IF ~HasRoom(rid) \/ ~rooms[rid].started
          THEN /\ ack' = Fail("enemy:hit", "Room not active")
               /\ emits' = <<>>
               /\ UNCHANGED rooms
          ELSE
            LET room1 == initRoomGame(rooms[rid], u)
                err == EnemyHitError(room1, s, enemyType, enemyId, heavy)
                hit == applyEnemyDamage(HitTarget(room1, enemyType, enemyId), damage)
                room2 == AfterEnemyHit(room1, enemyType, enemyId, hit)
            IN IF err # ""
                 THEN /\ rooms' = [rooms EXCEPT ![rid] = room1]
                      /\ ack' = Fail("enemy:hit", err)
                      /\ emits' = <<>>
                 ELSE /\ rooms' = [rooms EXCEPT ![rid] = room2]
                      /\ emits' =
                           HitBroadcasts(room2,
                             [ev |-> "enemy:slain", to |-> rid,
                              data |-> [enemyType |-> hit.enemy.type,
                                        enemyId |-> hit.enemy.id, killerId |-> s,
                                        x |-> hit.enemy.x, y |-> hit.enemy.y,
                                        quest |-> sanitizeQuestSync(room2.game.questSync)]],
                             hit.killed)
                      /\ ack' = [op |-> "enemy:hit", ok |-> TRUE, error |-> "",
                                 killed |-> hit.killed, hp |-> hit.enemy.hp]

(***************************************************************************)
(* room:list, wave:state and wave:hit: handlers that change no state.      *)
(***************************************************************************)
\* the public views of the lobby rooms among rooms 1..n, in the order of the
\* rooms Map
RECURSIVE LobbyList(_)
LobbyList(n) ==
  IF n = 0 THEN <<>>
  ELSE LobbyList(n - 1)
         \o (IF HasRoom(n) /\ ~rooms[n].started THEN <<makeRoomPublic(rooms[n])>>
             ELSE <<>>)

RoomList(s) ==
  /\ sockets[s] = "live"
  /\ ack' = [op |-> "room:list", ok |-> TRUE, error |-> "", list |-> LobbyList(MaxRooms)]
  /\ emits' = <<>>
  /\ UNCHANGED <<rooms, playerRoom, nextRoomId, sockets, now, lastTickAt>>

\* the same with the sender's own leader flag as the test
WaveStateByFlag(s, ridRaw, st) ==
  /\ sockets[s] = "live"
  /\ ack' = NoAck
  /\ UNCHANGED <<rooms, playerRoom, nextRoomId, sockets, now, lastTickAt>>
  /\ LET rid == ResolveRoomId(ridRaw, s)
     IN IF ~HasRoom(rid) \/ ~rooms[rid].started THEN emits' = <<>>
        ELSE IF ~\E i \in 1..Len(rooms[rid].players) :
                     /\ rooms[rid].players[i].id = s
                     /\ rooms[rid].players[i].connected
                     /\ rooms[rid].players[i].leader THEN emits' = <<>>
        ELSE emits' = <<[ev |-> "wave:state", to |-> rid, data |-> [state |-> st]]>>

\* wave:state (no acknowledgment): relayed when the sender is the leader
WaveState(s, ridRaw, st) ==
  /\ sockets[s] = "live"
  /\ ack' = NoAck
  /\ UNCHANGED <<rooms, playerRoom, nextRoomId, sockets, now, lastTickAt>>
  /\ LET rid == ResolveRoomId(ridRaw, s)
     IN IF ~HasRoom(rid) \/ ~rooms[rid].started THEN emits' = <<>>
        ELSE IF roomLeader(rooms[rid]).id # s THEN emits' = <<>>
        ELSE emits' = <<[ev |-> "wave:state", to |-> rid, data |-> [state |-> st]]>>

\* !!raw : undefined, false, 0 and NaN are falsy; RStr stands for a
\* non-numeric, hence non-empty, string
Truthy(raw) ==
  IF raw.t \in {"num", "bool", "frac"} THEN raw.n # 0
  ELSE raw.t = "str"

\* wave:hit: forwarded to the leader's connection (to is its socket id);
\* enemyId and damage travel as received, heavy as a boolean
WaveHit(s, ridRaw, enemyId, damage, heavy) ==
  /\ sockets[s] = "live"
  /\ UNCHANGED <<rooms, playerRoom, nextRoomId, sockets, now, lastTickAt>>
  /\ LET rid == ResolveRoomId(ridRaw, s)
     IN IF ~HasRoom(rid) \/ ~rooms[rid].started
          THEN ack' = Fail("wave:hit", "Room not active") /\ emits' = <<>>
        ELSE IF roomLeader(rooms[rid]).id = 0
          THEN ack' = Fail("wave:hit", "Leader not found") /\ emits' = <<>>
        ELSE IF roomLeader(rooms[rid]).id = s
          THEN ack' = Fail("wave:hit", "Leader should resolve locally") /\ emits' = <<>>
        ELSE /\ ack' = [op |-> "wave:hit", ok |-> TRUE, error |-> ""]
             /\ emits' = <<[ev |-> "wave:hit", to |-> roomLeader(rooms[rid]).id,
                            data |-> [roomId |-> rid, enemyId |-> enemyId,
                                      damage |-> damage,
                                      heavy |-> RBool(Truthy(heavy)),
                                      fromId |-> s]]>>

(***************************************************************************)
(* disconnect                                                              *)
(***************************************************************************)
\* the lobby branch: the slot is removed and a leader named if none is left
LobbyLeave(players, s) ==
  LET rest == SelectSeq(players, LAMBDA p : p.id # s)
      fc == IF FirstConnectedIdx(rest) # 0 THEN FirstConnectedIdx(rest) ELSE 1
  IN IF Len(rest) > 0 /\ ~\E i \in 1..Len(rest) : rest[i].leader
       THEN [rest EXCEPT ![fc].leader = TRUE]
       ELSE rest

\* A started branch that marks the slot without recording the time.
MarkDisconnectedNoStamp(room, i, t) ==
  LET room1 == [room EXCEPT !.players[i].connected = FALSE]
  IN IF Len(connectedPlayers(room1)) = 0
       THEN [room1 EXCEPT !.emptySince = t]
       ELSE room1

\* A started branch that leaves the zero-connected timer alone.
MarkDisconnectedNoTimer(room, i, t) ==
  [room EXCEPT !.players[i].connected = FALSE, !.players[i].disconnectedAt = t]

\* the started branch: the slot is kept, marked disconnected
MarkDisconnected(room, i, t) ==
  LET room1 == [room EXCEPT !.players[i].connected = FALSE,
                            !.players[i].disconnectedAt = t]
  IN IF Len(connectedPlayers(room1)) = 0
       THEN [room1 EXCEPT !.emptySince = t]
       ELSE room1

Disconnect(s) ==
  /\ sockets[s] = "live"
  /\ sockets' = [sockets EXCEPT ![s] = "closed"]
  /\ playerRoom' = [playerRoom EXCEPT ![s] = 0]
  /\ ack' = NoAck
  /\ UNCHANGED <<nextRoomId, now, lastTickAt>>
  /\ LET rid == playerRoom[s]
         i == IF HasRoom(rid) THEN SlotOfSocket(rooms[rid].players, s) ELSE 0
     IN IF i = 0
          THEN /\ emits' = <<>>
               /\ UNCHANGED rooms
          ELSE IF ~rooms[rid].started
            THEN LET rest == LobbyLeave(rooms[rid].players, s)
                 IN IF Len(rest) = 0
                      THEN /\ rooms' = DeleteRoom(rooms, rid)
                           /\ emits' = <<>>
                      ELSE /\ rooms' = [rooms EXCEPT ![rid].players = rest]
                           /\ emits' = <<EvRoomUpdate(rooms'[rid])>>
            ELSE /\ rooms' = [rooms EXCEPT ![rid] = MarkDisconnected(rooms[rid], i, now)]
                 /\ emits' = <<EvRoomUpdate(rooms'[rid])>>

(***************************************************************************)
(* The periodic tick: sweep, simulation and the throttled snapshot.        *)
(***************************************************************************)
\* the sweep of one room at clock t: the room after the prune and the
\* emptySince bookkeeping, and whether the sweep deletes it
SweepRoom(room, t) ==
  LET r1 == pruneRoomStaleMembers(room, t)
      emptyStarted == r1.started /\ Len(connectedPlayers(r1)) = 0
      es == IF emptyStarted THEN (IF r1.emptySince # 0 THEN r1.emptySince ELSE t) ELSE 0
  IN [deleted |-> \/ Len(r1.players) = 0
                  \/ emptyStarted /\ t - es > EMPTY_STARTED_ROOM_GRACE_MS,
      room |-> IF Len(r1.players) = 0 THEN r1 ELSE [r1 EXCEPT !.emptySince = es]]

\* the throttled snapshot of a simulated room
TickEmit(r3, t) ==
  IF t - r3.game.phase1.lastEmitAt >= GAME_STATE_EMIT_MS
    THEN [deleted |-> FALSE,
          room |-> [r3 EXCEPT !.game.phase1.lastEmitAt = t],
          emits |-> emitGameState([r3 EXCEPT !.game.phase1.lastEmitAt = t])]
    ELSE [deleted |-> FALSE, room |-> r3, emits |-> <<>>]

TickSwept(sw, t, dt, w, u, ub) ==
  IF sw.deleted \/ ~sw.room.started \/ ~HasGame(sw.room)
    THEN [deleted |-> sw.deleted, room |-> sw.room, emits |-> <<>>]
    ELSE CHOOSE res \in {TickEmit(r3, t) :
                           r3 \in {updateRoomEnemies(sw.room, dt, w, u, ub)}} : TRUE

\* one room's pass of the tick at clock t: whether the room is deleted, the
\* room after the pass, and what the pass broadcasts
TickRoom(room, t, dt, w, u, ub) ==
  CHOOSE res \in {TickSwept(sw, t, dt, w, u, ub) : sw \in {SweepRoom(room, t)}} : TRUE

\* the broadcasts of the passes over rooms 1..n, in the order of the rooms Map
RECURSIVE TickEmits(_, _)
TickEmits(pass, n) ==
  IF n = 0 THEN <<>>
  ELSE TickEmits(pass, n - 1) \o (IF n \in DOMAIN pass THEN pass[n].emits ELSE <<>>)

\* The clock is read at the ticks: the tick at clock t moves now to t, and a
\* handler run between two ticks reads the clock of the earlier one.
Tick(t, w, u, ub) ==
  /\ t >= now
  /\ \E pass \in {[r \in DOMAIN rooms |->
                     TickRoom(rooms[r], t, Min(t - lastTickAt, MaxTickDtMs), w, u, ub)]} :
        /\ rooms' = [r \in {x \in DOMAIN rooms : ~pass[x].deleted} |-> pass[r].room]
        /\ emits' = TickEmits(pass, MaxRooms)
  /\ now' = t
  /\ lastTickAt' = t
  /\ ack' = NoAck
  /\ UNCHANGED <<playerRoom, nextRoomId, sockets>>

(***************************************************************************)
(* Inputs of the handlers.  A profile names the set each input of a        *)
(* handler is drawn from.  In a payload roomId, 0 is a payload without     *)
(* roomId and MaxRooms + 1 names no room.                                  *)
(***************************************************************************)
\* a reported position in the wolf area, at the dire wolf's spawn point
SilverAtDire == [map |-> "silver", x |-> 1560, y |-> 200]

ReportStage6 == [stage |-> RNum(6), quest |-> <<>>]
ReportStage10 == [stage |-> RNum(10), quest |-> [wolvesSlain |-> RNum(3)]]
ReportDireDefeated == [stage |-> RUndef, quest |-> [direDefeated |-> RBool(TRUE)]]
\* a report that is stale or malformed in every field
ReportStale ==
  [stage |-> RStr, quest |-> [stage |-> RNum(2), wolvesSlain |-> RStr,
                              gotPelt |-> RNum(1), direDefeated |-> RBool(FALSE)]]

\* A profile: sockets, the connections that send messages; instants, the
\* clock readings of the ticks; clientIds, the clientId values a socket sends
\* ("" is a payload without clientId).
RoomsProfile ==
  [sockets |-> Sockets,
   instants |-> {StartTime + 100, StartTime + 100 + PLAYER_RECONNECT_GRACE_MS + 1},
   clientIds |-> [s \in Sockets |-> IF s = 2 THEN {""} ELSE {"c1"}],
   createCodes |-> {"k"}, joinCodes |-> {"", "k"},
   difficulties |-> {"medium"}, maxPlayers |-> {RUndef, RNum(3)},
   roomIds |-> 0..(MaxRooms + 1), readies |-> BOOLEAN,
   states |-> {NullState}]

GameProfile ==
  [sockets |-> {1, 2},
   instants |-> {StartTime + 100},
   clientIds |-> [s \in Sockets |-> {"c1"}],
   createCodes |-> {"k"}, joinCodes |-> {"k"},
   difficulties |-> {"medium"}, maxPlayers |-> {RUndef},
   roomIds |-> {0}, readies |-> {TRUE},
   states |-> {SilverAtDire},
   reports |-> {ReportStage6, ReportStale},
   gotPelts |-> {RBool(TRUE)}, wolfIds |-> {1}, enemyTypes |-> {"dire"},
   heavies |-> {FALSE}, damages |-> {RNum(5000)}]

\* the membership handlers and the tick
MembershipNext(P) ==
  \/ \E s \in P.sockets : Connect(s)
  \/ \E s \in P.sockets : \E c \in P.clientIds[s], k \in P.createCodes,
        d \in P.difficulties, m \in P.maxPlayers : RoomCreate(s, c, k, d, m)
  \/ \E s \in P.sockets : \E r \in RoomIds \cup {MaxRooms + 1}, c \in P.clientIds[s],
        k \in P.joinCodes : RoomJoin(s, r, c, k)
  \/ \E s \in P.sockets : \E r \in RoomIds \cup {MaxRooms + 1}, c \in P.clientIds[s] :
        RoomReconnect(s, r, c)
  \/ \E s \in P.sockets, r \in P.roomIds, b \in P.readies, u \in WolfDraws :
        RoomReady(s, r, b, u)
  \/ \E s \in P.sockets, r \in P.roomIds, st \in P.states : PlayerState(s, r, st)
  \/ \E s \in P.sockets : Disconnect(s)
  \/ \E t \in P.instants \cup {now}, w \in WanderDirs, u \in WolfDraws,
        ub \in WolfDraws : Tick(t, w, u, ub)

\* the quest and combat handlers
GameNext(P) ==
  \/ \E s \in P.sockets, r \in P.roomIds, p \in P.reports, u \in WolfDraws,
        ub \in WolfDraws : QuestSync(s, r, p, u, ub)
  \/ \E s \in P.sockets, r \in P.roomIds, g \in P.gotPelts, u \in WolfDraws :
        QuestPhase1Update(s, r, g, u)
  \/ \E s \in P.sockets, r \in P.roomIds, w \in P.wolfIds, h \in P.heavies,
        d \in P.damages, u \in WolfDraws : WolfHit(s, r, w, h, d, u)
  \/ \E s \in P.sockets, r \in P.roomIds, e \in P.enemyTypes, w \in P.wolfIds,
        h \in P.heavies, d \in P.damages, u \in WolfDraws :
        EnemyHit(s, r, e, w, h, d, u)

Next == MembershipNext(GameProfile) \/ GameNext(GameProfile)

Spec == Init /\ [][Next]_vars

\* the handlers that only read the rooms
RelayNext(P) ==
  \/ \E s \in P.sockets : RoomList(s)
  \/ \E s \in P.sockets, r \in P.roomIds : WaveState(s, r, 1)
  \/ \E s \in P.sockets, r \in P.roomIds : WaveHit(s, r, 1, RNum(40), RBool(FALSE))

\* the membership handlers, the tick and the relays, over wider membership
\* inputs
NextRooms == MembershipNext(RoomsProfile) \/ RelayNext(RoomsProfile)

SpecRooms == Init /\ [][NextRooms]_vars

(***************************************************************************)
(* The sweep over longer clock readings: ticks at the end of the reconnect *)
(* grace of a disconnect at start-up, one millisecond later, and past the  *)
(* grace of an empty started room.                                         *)
(***************************************************************************)
SweepProfile ==
  [sockets |-> Sockets,
   instants |-> {StartTime + PLAYER_RECONNECT_GRACE_MS,
                 StartTime + PLAYER_RECONNECT_GRACE_MS + 1,
                 StartTime + PLAYER_RECONNECT_GRACE_MS + EMPTY_STARTED_ROOM_GRACE_MS + 2},
   clientIds |-> [s \in Sockets |-> IF s = 2 THEN {""} ELSE {"c1"}],
   createCodes |-> {"k"}, joinCodes |-> {"k"},
   difficulties |-> {"medium"}, maxPlayers |-> {RNum(2)},
   roomIds |-> {0}, readies |-> {TRUE},
   states |-> {NullState}]

NextSweep == MembershipNext(SweepProfile)

SpecSweep == Init /\ [][NextSweep]_vars

(***************************************************************************)
(* Melee on its own: one player in a started room reports positions at     *)
(* and around the reach of a blow and strikes wolves, bandits and the dire *)
(* wolf with lethal and non-lethal damage.                                 *)
(***************************************************************************)
\* on the edge of a light blow's reach of the dire wolf (68 + 23 + 20 = 111)
SilverLightEdge == [map |-> "silver", x |-> 1560 + 111, y |-> 200]
\* one unit beyond it
SilverBeyond == [map |-> "silver", x |-> 1560 + 112, y |-> 200]
\* at the bandits' spawn point
IronAtBandits == [map |-> "iron", x |-> 1490, y |-> 340]

CombatProfile ==
  [sockets |-> {1},
   clientIds |-> {"c1"}, joinIds |-> {"c1", ""},
   createCodes |-> {"k"}, joinCodes |-> {"k"},
   difficulties |-> {"medium"}, maxPlayers |-> {RUndef},
   roomIds |-> {0, MaxRooms + 1}, readies |-> {TRUE},
   states |-> {SilverAtDire, SilverLightEdge, SilverBeyond, IronAtBandits},
   reports |-> {ReportStage10},
   wolfIds |-> {1, 99}, enemyTypes |-> {"dire", "bandit", "ghost"},
   heavies |-> BOOLEAN,
   damages |-> {RNum(60), RFrac(119, 2), RNum(5000)}]

CombatNext(P) ==
  \/ \E s \in P.sockets : Connect(s)
  \/ \E s \in P.sockets, c \in P.clientIds, k \in P.createCodes,
        d \in P.difficulties, m \in P.maxPlayers : RoomCreate(s, c, k, d, m)
  \/ \E s \in P.sockets, r \in P.roomIds, b \in P.readies, u \in WolfDraws :
        RoomReady(s, r, b, u)
  \/ \E s \in P.sockets, r \in P.roomIds, st \in P.states : PlayerState(s, r, st)
  \/ \E s \in P.sockets, r \in RoomIds \cup {MaxRooms + 1}, c \in P.joinIds,
        k \in P.joinCodes : RoomJoin(s, r, c, k)
  \/ \E s \in P.sockets, r \in RoomIds \cup {MaxRooms + 1}, c \in P.joinIds :
        RoomReconnect(s, r, c)
  \/ \E s \in P.sockets, r \in P.roomIds, p \in P.reports, u \in WolfDraws,
        ub \in WolfDraws : QuestSync(s, r, p, u, ub)
  \/ \E s \in P.sockets, r \in P.roomIds, w \in P.wolfIds, h \in P.heavies,
        d \in P.damages, u \in WolfDraws : WolfHit(s, r, w, h, d, u)
  \/ \E s \in P.sockets, r \in P.roomIds, e \in P.enemyTypes, w \in P.wolfIds,
        h \in P.heavies, d \in P.damages, u \in WolfDraws :
        EnemyHit(s, r, e, w, h, d, u)
  \/ \E s \in P.sockets, r \in P.roomIds : WaveHit(s, r, 1, RNum(40), RBool(FALSE))

NextCombat == CombatNext(CombatProfile)

SpecCombat == Init /\ [][NextCombat]_vars

(***************************************************************************)
(* The wolf pool between ticks: one player within reach of the pack, and  *)
(* out of its contact radius, strikes any of the first nine wolves dead,   *)
(* in any order; the ticks find the clock where the last tick left it.     *)
(***************************************************************************)
PoolsProfile ==
  [sockets |-> {1},
   instants |-> {},
   clientIds |-> {"c1"},
   createCodes |-> {"k"},
   difficulties |-> {"medium"}, maxPlayers |-> {RUndef},
   roomIds |-> {0}, readies |-> {TRUE},
   states |-> {[map |-> "silver", x |-> 1560 + 100, y |-> 200]},
   wolfIds |-> 1..9, heavies |-> {FALSE}, damages |-> {RNum(5000)}]

PoolsNext(P) ==
  \/ \E s \in P.sockets : Connect(s)
  \/ \E s \in P.sockets, c \in P.clientIds, k \in P.createCodes,
        d \in P.difficulties, m \in P.maxPlayers : RoomCreate(s, c, k, d, m)
  \/ \E s \in P.sockets, r \in P.roomIds, b \in P.readies, u \in WolfDraws :
        RoomReady(s, r, b, u)
  \/ \E s \in P.sockets, r \in P.roomIds, st \in P.states : PlayerState(s, r, st)
  \/ \E s \in P.sockets, r \in P.roomIds, w \in P.wolfIds, h \in P.heavies,
        d \in P.damages, u \in WolfDraws : WolfHit(s, r, w, h, d, u)
  \/ \E t \in P.instants \cup {now}, w \in WanderDirs, u \in WolfDraws,
        ub \in WolfDraws : Tick(t, w, u, ub)

NextPools == PoolsNext(PoolsProfile)

SpecPools == Init /\ [][NextPools]_vars

(***************************************************************************)
(* The slots of a room: capacities of every kind a room:create payload can *)
(* ask for, and a connection that joins under two client identities.       *)
(***************************************************************************)
SlotsProfile ==
  [sockets |-> Sockets,
   instants |-> {StartTime + PLAYER_RECONNECT_GRACE_MS + 1},
   clientIds |-> [s \in Sockets |-> IF s = 2 THEN {"", "c1"} ELSE {"c1"}],
   createCodes |-> {"k"}, joinCodes |-> {"k"},
   difficulties |-> {"medium"},
   maxPlayers |-> {RUndef, RNum(9), RFrac(3, 2)},
   roomIds |-> 0..MaxRooms, readies |-> {TRUE},
   states |-> {NullState}]

NextSlots == MembershipNext(SlotsProfile)

SpecSlots == Init /\ [][NextSlots]_vars

(***************************************************************************)
(* The wave relays over the memberships of a room of up to three           *)
(* connections, with heavy flags of several JavaScript types.              *)
(***************************************************************************)
RelayProfile ==
  [sockets |-> Sockets,
   instants |-> {},
   clientIds |-> [s \in Sockets |-> IF s = 2 THEN {""} ELSE {"c1"}],
   createCodes |-> {"k"}, joinCodes |-> {"k"},
   difficulties |-> {"medium"}, maxPlayers |-> {RNum(3)},
   roomIds |-> 0..MaxRooms, readies |-> {TRUE},
   states |-> {NullState},
   waveStates |-> {1}, enemyIds |-> {1}, damages |-> {RNum(40)},
   heavies |-> {RBool(TRUE), RBool(FALSE), RNum(1), RUndef}]

WaveNext(P) ==
  \/ \E s \in P.sockets, r \in P.roomIds, st \in P.waveStates : WaveState(s, r, st)
  \/ \E s \in P.sockets, r \in P.roomIds, e \in P.enemyIds, d \in P.damages,
        h \in P.heavies : WaveHit(s, r, e, d, h)

NextRelay == MembershipNext(RelayProfile) \/ WaveNext(RelayProfile)

SpecRelay == Init /\ [][NextRelay]_vars

(***************************************************************************)
(* The bosses: one player raises the quest stage through the unlock gates, *)
(* reports or deals the defeat of the dire wolf and of the warlord, leaves *)
(* and reconnects, while ticks run.                                        *)
(***************************************************************************)
ReportStage14 == [stage |-> RNum(14), quest |-> <<>>]
ReportWarlordDefeated == [stage |-> RUndef, quest |-> [warlordDefeated |-> RBool(TRUE)]]

\* a reported position in the cave, at the warlord's spawn point
CaveAtWarlord == [map |-> "cave", x |-> 690, y |-> 230]

BossProfile ==
  [sockets |-> {1},
   instants |-> {StartTime + 100},
   clientIds |-> {"c1"},
   createCodes |-> {"k"},
   difficulties |-> {"medium"}, maxPlayers |-> {RUndef},
   roomIds |-> {0}, readies |-> {TRUE},
   states |-> {SilverAtDire, CaveAtWarlord},
   reports |-> {ReportStage6, ReportStage10, ReportStage14, ReportDireDefeated,
                ReportWarlordDefeated},
   enemyTypes |-> {"dire", "warlord"}, enemyIds |-> {0},
   heavies |-> {FALSE}, damages |-> {RNum(5000)}]

BossNext(P) ==
  \/ \E s \in P.sockets : Connect(s)
  \/ \E s \in P.sockets, c \in P.clientIds, k \in P.createCodes,
        d \in P.difficulties, m \in P.maxPlayers : RoomCreate(s, c, k, d, m)
  \/ \E s \in P.sockets, r \in P.roomIds, b \in P.readies, u \in WolfDraws :
        RoomReady(s, r, b, u)
  \/ \E s \in P.sockets, r \in P.roomIds, st \in P.states : PlayerState(s, r, st)
  \/ \E s \in P.sockets, r \in RoomIds, c \in P.clientIds : RoomReconnect(s, r, c)
  \/ \E s \in P.sockets, r \in P.roomIds, p \in P.reports, u \in WolfDraws,
        ub \in WolfDraws : QuestSync(s, r, p, u, ub)
  \/ \E s \in P.sockets, r \in P.roomIds, e \in P.enemyTypes, w \in P.enemyIds,
        h \in P.heavies, d \in P.damages, u \in WolfDraws :
        EnemyHit(s, r, e, w, h, d, u)
  \/ \E t \in P.instants \cup {now}, w \in WanderDirs, u \in WolfDraws,
        ub \in WolfDraws : Tick(t, w, u, ub)

NextBoss == BossNext(BossProfile)

SpecBoss == Init /\ [][NextBoss]_vars

(***************************************************************************)
(* The leashes: the pools of a room at stage 14 spawn at the corners of    *)
(* the spawn areas, and one player draws the pack towards and across the   *)
(* edge of its leash, or stands on it, over a few ticks of full length.    *)
(* The pools are filled when the room starts and when the stage is         *)
(* reported, and no enemy dies, so the ticks draw no spawn position.       *)
(***************************************************************************)
\* the least and greatest values of Math.random(), in thousandths
CornerDraws == {<<0, 0>>, <<999, 999>>}

\* every enemy of a batch drawn at the same corner
LeashDraws == {[i \in 1..10 |-> c] : c \in CornerDraws}

\* west of the wolves' leash, level with the north-west corner of their
\* spawn area
SilverWestOfLeash == [map |-> "silver", x |-> 1000 - 200, y |-> 150]
\* on the north-west corner of the wolves' spawn area
SilverAtCorner == [map |-> "silver", x |-> 1000, y |-> 150]

LeashProfile ==
  [sockets |-> {1},
   instants |-> {StartTime + 200, StartTime + 400, StartTime + 600},
   clientIds |-> {"c1"},
   createCodes |-> {"k"},
   difficulties |-> {"medium"}, maxPlayers |-> {RUndef},
   roomIds |-> {0}, readies |-> {TRUE},
   states |-> {SilverWestOfLeash, SilverAtCorner, CaveAtWarlord},
   reports |-> {ReportStage14},
   wanders |-> WanderDirs]

LeashNext(P) ==
  \/ \E s \in P.sockets : Connect(s)
  \/ \E s \in P.sockets, c \in P.clientIds, k \in P.createCodes,
        d \in P.difficulties, m \in P.maxPlayers : RoomCreate(s, c, k, d, m)
  \/ \E s \in P.sockets, r \in P.roomIds, b \in P.readies, u \in LeashDraws :
        RoomReady(s, r, b, u)
  \/ \E s \in P.sockets, r \in P.roomIds, st \in P.states : PlayerState(s, r, st)
  \/ \E s \in P.sockets, r \in P.roomIds, p \in P.reports, u \in WolfDraws,
        ub \in LeashDraws : QuestSync(s, r, p, u, ub)
  \/ \E t \in P.instants \cup {now}, w \in P.wanders, u \in WolfDraws,
        ub \in WolfDraws : Tick(t, w, u, ub)

NextLeash == LeashNext(LeashProfile)

SpecLeash == Init /\ [][NextLeash]_vars

(***************************************************************************)
(* Isolation: connection 1 plays alone in its room while connection 2,     *)
(* which never creates or joins a room, sends quest reports and wave hits  *)
(* that name the room.                                                     *)
(***************************************************************************)
IsolationProfile ==
  [members |-> {1}, sockets |-> {1, 2},
   clientIds |-> {"c1"},
   createCodes |-> {"k"},
   difficulties |-> {"medium"}, maxPlayers |-> {RUndef},
   roomIds |-> 0..MaxRooms, readies |-> {TRUE},
   reports |-> {ReportStage6, ReportStage10, ReportDireDefeated},
   pelts |-> {RBool(TRUE)},
   enemyIds |-> {1}, damages |-> {RNum(40)}, heavies |-> {RBool(TRUE), RBool(FALSE)}]

IsolationNext(P) ==
  \/ \E s \in P.sockets : Connect(s)
  \/ \E s \in P.members, c \in P.clientIds, k \in P.createCodes,
        d \in P.difficulties, m \in P.maxPlayers : RoomCreate(s, c, k, d, m)
  \/ \E s \in P.members, r \in P.roomIds, b \in P.readies, u \in WolfDraws :
        RoomReady(s, r, b, u)
  \/ \E s \in P.sockets, r \in P.roomIds, p \in P.reports, u \in WolfDraws,
        ub \in WolfDraws : QuestSync(s, r, p, u, ub)
  \/ \E s \in P.sockets, r \in P.roomIds, g \in P.pelts, u \in WolfDraws :
        QuestPhase1Update(s, r, g, u)
  \/ \E s \in P.sockets, r \in P.roomIds, e \in P.enemyIds, d \in P.damages,
        h \in P.heavies : WaveHit(s, r, e, d, h)

NextIsolation == IsolationNext(IsolationProfile)

SpecIsolation == Init /\ [][NextIsolation]_vars

(***************************************************************************)
(* The quest merge on its own: a started single-player room whose quest    *)
(* record is drawn from QuestInputs takes reports drawn from MergeReports. *)
(***************************************************************************)
ReportPelt ==
  [stage |-> RNum(3), quest |-> [wolvesSlain |-> RNum(1), gotPelt |-> RBool(TRUE)]]

MergeReports == {ReportStage6, ReportStage10, ReportDireDefeated, ReportStale, ReportPelt}

\* quest records below the stages that spawn phase-2 enemies
QuestInputs ==
  {[defaultQuestSync EXCEPT !.stage = st, !.wolvesSlain = w, !.gotPelt = g] :
     st \in {0, 3}, w \in {0, 2}, g \in BOOLEAN}

MergeRoom(q, u) ==
  LET lobby == [id |-> 1, code |-> "k", difficulty |-> "medium",
                maxPlayers |-> ClampMaxPlayers(RNum(1)),
                started |-> TRUE, emptySince |-> 0, game |-> NoGame,
                players |-> <<[NewHostSlot(1, normalizeClientId("c1", 1))
                                 EXCEPT !.ready = TRUE]>>]
  IN [initRoomGame(lobby, u) EXCEPT !.game.questSync = q]

InitMerge ==
  /\ \E q \in QuestInputs, u \in WolfDraws : rooms = [r \in {1} |-> MergeRoom(q, u)]
  /\ playerRoom = [s \in Sockets |-> IF s = 1 THEN 1 ELSE 0]
  /\ nextRoomId = 2
  /\ sockets = [s \in Sockets |-> IF s = 1 THEN "live" ELSE "new"]
  /\ now = StartTime
  /\ lastTickAt = StartTime
  /\ ack = NoAck
  /\ emits = <<>>

NextMerge ==
  \/ \E p \in MergeReports, u \in WolfDraws, ub \in WolfDraws : QuestSync(1, 0, p, u, ub)
  \/ \E g \in {RBool(TRUE), RBool(FALSE), RNum(1)}, u \in WolfDraws :
        QuestPhase1Update(1, 0, g, u)

SpecMerge == InitMerge /\ [][NextMerge]_vars

(***************************************************************************)
(* Properties.                                                             *)
(***************************************************************************)
\* the rooms a step keeps
KeptRooms == (DOMAIN rooms) \cap (DOMAIN rooms')

ConnectedLeaders(room) ==
  {i \in 1..Len(room.players) : room.players[i].connected /\ room.players[i].leader}

\* C1: in every room, between two handler or tick runs, if some slot is
\* connected then exactly one connected slot has leader = true.
ExactlyOneConnectedLeader ==
  \A r \in DOMAIN rooms :
    Len(connectedPlayers(rooms[r])) > 0 => Cardinality(ConnectedLeaders(rooms[r])) = 1

\* C6: once leadership has been transferred, the former leader's slot is no
\* longer reported as leader: the public view of a room (makeRoomPublic, the
\* payload of room:update) never lists two leaders.
FormerLeaderNotReported ==
  \A r \in DOMAIN rooms :
    \A i, j \in 1..Len(makeRoomPublic(rooms[r]).players) :
      (makeRoomPublic(rooms[r]).players[i].leader
         /\ makeRoomPublic(rooms[r]).players[j].leader) => i = j

GameStartsIn(evs, r) == \E i \in 1..Len(evs) : evs[i].ev = "game:start" /\ evs[i].to = r

\* C2: game:start is broadcast at most once in a room's life: a room starts
\* once and its id is never given again, so no handler run on a room that is
\* already started broadcasts game:start for it.
GameStartOnce ==
  [][\A r \in DOMAIN rooms : rooms[r].started => ~GameStartsIn(emits', r)]_vars

\* a session as a later state holds it: still there, quest not back at its
\* default, id counters not restarted, no wolf removed, revived or healed
SessionKept(old, new) ==
  /\ HasGame(new)
  /\ old.game.questSync # defaultQuestSync => new.game.questSync # defaultQuestSync
  /\ new.game.phase1.nextWolfId >= old.game.phase1.nextWolfId
  /\ new.game.phase2.nextBanditId >= old.game.phase2.nextBanditId
  /\ Len(new.game.phase1.wolves) >= Len(old.game.phase1.wolves)
  /\ \A i \in 1..Len(old.game.phase1.wolves) :
       /\ new.game.phase1.wolves[i].id = old.game.phase1.wolves[i].id
       /\ ~old.game.phase1.wolves[i].alive => ~new.game.phase1.wolves[i].alive
       /\ new.game.phase1.wolves[i].hp <= old.game.phase1.wolves[i].hp
  /\ old.game.questSync.direDefeated => new.game.phase2.direWolf = NoEnemy

\* C3: a room has a session exactly when it is started; a started room stays
\* started, and no step replaces or resets its session.
SessionIffStartedAndKept ==
  /\ [](\A r \in DOMAIN rooms : HasGame(rooms[r]) <=> rooms[r].started)
  /\ [][\A r \in KeptRooms :
          rooms[r].started => rooms'[r].started /\ SessionKept(rooms[r], rooms'[r])]_vars

\* a started room whose session has a slain wolf and a defeated dire wolf has
\* just taken a reconnect
SessionKeptWitness ==
  \E r \in DOMAIN rooms :
    /\ rooms[r].started /\ HasGame(rooms[r])
    /\ rooms[r].game.questSync.wolvesSlain = 1
    /\ rooms[r].game.questSync.direDefeated
    /\ ack.op = "room:reconnect" /\ ack.ok

QuestMonotone(q, q2) ==
  \A k \in QuestKeys : IF k \in QUEST_BOOL_KEYS THEN q[k] => q2[k] ELSE q2[k] >= q[k]

\* the report carries, for field k, a number no higher than q's or no true flag
ReportedNoHigher(q, incoming, k) ==
  IF k \in QUEST_BOOL_KEYS THEN ~IsTrue(Field(incoming, k))
  ELSE Max(0, NumberOr0(Field(incoming, k))) <= q[k]

\* C4: over every step of a room's life no numeric quest field decreases and
\* no true milestone becomes false; a report carrying a lower number or a
\* false flag for a field leaves that field unchanged.
QuestNeverRegresses ==
  /\ [](\A r \in DOMAIN rooms : \A p \in GameProfile.reports :
          HasGame(rooms[r]) =>
            /\ QuestMonotone(rooms[r].game.questSync,
                             mergeQuestSync(rooms[r].game.questSync, Incoming(p)).quest)
            /\ \A k \in QuestKeys :
                 ReportedNoHigher(rooms[r].game.questSync, Incoming(p), k) =>
                   mergeQuestSync(rooms[r].game.questSync, Incoming(p)).quest[k]
                     = rooms[r].game.questSync[k])
  /\ [][\A r \in KeptRooms :
          HasGame(rooms[r]) =>
            /\ HasGame(rooms'[r])
            /\ QuestMonotone(rooms[r].game.questSync, rooms'[r].game.questSync)]_vars

\* a quest:sync report that brought nothing new was acknowledged with the
\* quest at stage 6, one wolf slain and the dire wolf defeated
RegressiveReportDropped ==
  /\ ack.op = "quest:sync" /\ ack.ok /\ emits = <<>>
  /\ ack.quest.stage = 6 /\ ack.quest.wolvesSlain = 1 /\ ack.quest.direDefeated

\* the quest record after merging report p into q, as quest:sync does
Merged(q, p) == mergeQuestSync(q, Incoming(p)).quest

\* the per-field join of q and the report: max of the numbers, OR of the flags
Join(q, p) ==
  [k \in QuestKeys |->
     IF k \in QUEST_BOOL_KEYS THEN q[k] \/ IsTrue(Field(Incoming(p), k))
     ELSE Max(q[k], Max(0, NumberOr0(Field(Incoming(p), k))))]

\* C5: mergeQuestSync is the per-field join (max of numbers, OR of flags), so
\* for every quest record q and reports a, b: merging a twice equals merging
\* it once, and merging a then b equals merging b then a.
MergeIsJoin ==
  \A r \in DOMAIN rooms : \A a, b \in MergeReports :
    HasGame(rooms[r]) =>
      /\ Merged(rooms[r].game.questSync, a) = Join(rooms[r].game.questSync, a)
      /\ Merged(Merged(rooms[r].game.questSync, a), a) = Merged(rooms[r].game.questSync, a)
      /\ Merged(Merged(rooms[r].game.questSync, a), b)
           = Merged(Merged(rooms[r].game.questSync, b), a)

\* after a quest:sync, a quest record that two different reports both change,
\* each adding something the other does not
MergeOrderWitness ==
  /\ ack.op = "quest:sync" /\ ack.ok
  /\ \E r \in DOMAIN rooms : \E a, b \in MergeReports :
       /\ HasGame(rooms[r])
       /\ rooms[r].game.questSync # defaultQuestSync
       /\ Merged(Merged(rooms[r].game.questSync, a), b) # Merged(rooms[r].game.questSync, a)
       /\ Merged(Merged(rooms[r].game.questSync, a), b) # Merged(rooms[r].game.questSync, b)

\* what a quest:sync from socket s naming room ridRaw must leave behind
QuestSyncPost(s, ridRaw) ==
  LET rid == ResolveRoomId(ridRaw, s)
      new == rooms'[rid]
  IN /\ HasGame(rooms[rid]) /\ HasGame(new)
     /\ IF new.game.questSync # rooms[rid].game.questSync
          THEN /\ emits' = <<[ev |-> "quest:sync", to |-> rid,
                              data |-> sanitizeQuestSync(new.game.questSync)],
                             [ev |-> "game:state", to |-> rid,
                              data |-> makeGamePublic(new)]>>
               /\ (new.game.questSync.stage >= 6 /\ ~new.game.questSync.direDefeated)
                    => emits'[2].data.phase2.direWolf # NoEnemy
          ELSE emits' = <<>>

\* C7: an acknowledged quest:sync whose merge changes a quest field broadcasts
\* quest:sync and then game:state, both taken from the room as the merge and
\* the phase-2 spawn re-evaluation leave it; one that changes nothing
\* broadcasts nothing.
QuestSyncBroadcastRule ==
  [][(ack'.op = "quest:sync" /\ ack'.ok) =>
       \A s \in Sockets, r \in GameProfile.roomIds, p \in GameProfile.reports,
          u \in WolfDraws, ub \in WolfDraws :
         QuestSync(s, r, p, u, ub) => QuestSyncPost(s, r)]_vars

\* a quest:sync raised the stage to 6 and its game:state shows the dire wolf
QuestSyncSpawnWitness ==
  /\ ack.op = "quest:sync" /\ ack.ok /\ ack.quest.stage = 6
  /\ Len(emits) = 2
  /\ emits[1].ev = "quest:sync" /\ emits[2].ev = "game:state"
  /\ emits[2].data.phase2.direWolf # NoEnemy

\* the clientId values and codes a join or reconnect payload may carry
PayloadClientIds == {"", "c1"}
PayloadCodes == {"", "k"}

NoSharedClientId(players) ==
  \A i, j \in 1..Len(players) : players[i].clientId = players[j].clientId => i = j

\* what a room:join by socket s with this payload must leave behind
JoinPost(s, rid, cidRaw, code) ==
  LET cid == normalizeClientId(cidRaw, s)
      slot == IF HasRoom(rid) THEN SlotOfClient(rooms[rid].players, cid) ELSE 0
      expected == IF ~HasRoom(rid) THEN "Room not found"
                  ELSE IF slot # 0 THEN ""
                  ELSE IF rooms[rid].started THEN "Room already started"
                  ELSE IF rooms[rid].code # code THEN "Wrong room code"
                  ELSE IF AtCapacity(rooms[rid]) THEN "Room full"
                  ELSE ""
  IN /\ ack'.ok = (expected = "")
     /\ ack'.error = expected
     /\ expected # "" => rooms' = rooms /\ playerRoom' = playerRoom
     /\ slot # 0 =>
          /\ Len(rooms'[rid].players) = Len(rooms[rid].players)
          /\ rooms'[rid].players[slot].id = s
          /\ rooms'[rid].players[slot].connected
          /\ rooms'[rid].players[slot].clientId = cid
          /\ \A i \in 1..Len(rooms[rid].players) :
               i # slot => rooms'[rid].players[i] = rooms[rid].players[i]
     /\ (expected = "" /\ slot = 0) =>
          /\ Len(rooms'[rid].players) = Len(rooms[rid].players) + 1
          /\ Len(rooms'[rid].players) * rooms[rid].maxPlayers.d <= rooms[rid].maxPlayers.n
     /\ HasRoom(rid) => NoSharedClientId(rooms'[rid].players)

\* C8: a room:join by an identity without a slot fails with the first of
\* Room not found, Room already started, Wrong room code, Room full that
\* applies, and a failed join changes no player list; a join by an identity
\* that holds a slot succeeds whatever the started flag, the code and the
\* capacity are, rebinds that slot to the caller, marks it connected and adds
\* no slot.
JoinContract ==
  [][ack'.op = "room:join" =>
       \A s \in Sockets, r \in RoomIds \cup {MaxRooms + 1},
          c \in PayloadClientIds, k \in PayloadCodes :
         RoomJoin(s, r, c, k) => JoinPost(s, r, c, k)]_vars

\* socket 3 has joined a started room that is at capacity, into the slot its
\* identity already held
RejoinStartedFullWitness ==
  /\ ack.op = "room:join" /\ ack.ok /\ ack.room.started
  /\ \E r \in DOMAIN rooms :
       /\ rooms[r].started
       /\ AtCapacity(rooms[r])
       /\ \E i \in 1..Len(rooms[r].players) :
            rooms[r].players[i].id = 3 /\ rooms[r].players[i].connected

\* what a room:reconnect by socket s with this payload must leave behind
ReconnectPost(s, rid, cidRaw) ==
  LET cid == normalizeClientId(cidRaw, s)
      slot == IF HasRoom(rid) THEN SlotOfClient(rooms[rid].players, cid) ELSE 0
  IN /\ ~HasRoom(rid) => ~ack'.ok /\ ack'.error = "Room not found"
     /\ (HasRoom(rid) /\ slot = 0) => ~ack'.ok /\ ack'.error = "Player slot not found"
     /\ slot = 0 => rooms' = rooms /\ playerRoom' = playerRoom /\ emits' = <<>>
     /\ slot # 0 =>
          /\ ack'.ok
          /\ Len(rooms'[rid].players) = Len(rooms[rid].players)
          /\ rooms'[rid].players[slot].id = s
          /\ rooms'[rid].players[slot].connected
          /\ rooms'[rid].players[slot].disconnectedAt = 0
          /\ playerRoom'[s] = rid
          /\ \A t \in Sockets \ {s} :
               playerRoom'[t] = IF t = rooms[rid].players[slot].id THEN 0
                                ELSE playerRoom[t]
          /\ IF rooms[rid].started
               THEN /\ ack'.state = makeGamePublic(rooms'[rid])
                    /\ ack'.quest = sanitizeQuestSync(rooms'[rid].game.questSync)
               ELSE ack'.state = NoGame /\ ack'.quest = NoGame

\* C9: room:reconnect fails with Room not found for a room that does not
\* exist and with Player slot not found for an identity without a slot,
\* changing nothing; otherwise it rebinds the slot to the caller, sets
\* connected and clears disconnectedAt, drops the old connection from
\* playerRoom, points the caller at the room, and returns the game and quest
\* snapshots exactly when the room is started.
ReconnectContract ==
  [][ack'.op = "room:reconnect" =>
       \A s \in Sockets, r \in RoomIds \cup {MaxRooms + 1}, c \in PayloadClientIds :
         RoomReconnect(s, r, c) => ReconnectPost(s, r, c)]_vars

\* socket 3 took over, in a started room, the slot of socket 1, which is
\* still open and has lost its playerRoom entry
ReconnectTakeoverWitness ==
  /\ ack.op = "room:reconnect" /\ ack.ok /\ ack.state # NoGame
  /\ sockets[1] = "live" /\ playerRoom[1] = 0 /\ playerRoom[3] # 0
  /\ \E r \in DOMAIN rooms : \E i \in 1..Len(rooms[r].players) :
       rooms[r].players[i].id = 3 /\ rooms[r].players[i].clientId.v = "c1"

\* the events of this name among the broadcasts evs
EventsNamed(evs, name) == {i \in 1..Len(evs) : evs[i].ev = name}

Closes(s) == sockets[s] = "live" /\ sockets'[s] = "closed"

\* what the disconnect of socket s, holding slot i of room rid, leaves behind
DisconnectPost(s, rid, i) ==
  LET room == rooms[rid]
      rest == SelectSeq(room.players, LAMBDA p : p.id # s)
  IN IF ~room.started
       THEN IF Len(rest) = 0
              THEN rid \notin DOMAIN rooms'
              ELSE /\ rid \in DOMAIN rooms'
                   /\ Len(rooms'[rid].players) = Len(rest)
                   /\ \A j \in 1..Len(rest) :
                        /\ rooms'[rid].players[j].clientId = rest[j].clientId
                        /\ rooms'[rid].players[j].id = rest[j].id
                   /\ \E j \in 1..Len(rest) : rooms'[rid].players[j].leader
       ELSE /\ rid \in DOMAIN rooms'
            /\ rooms'[rid].started
            /\ rooms'[rid].game = room.game
            /\ Len(rooms'[rid].players) = Len(room.players)
            /\ rooms'[rid].players[i] =
                 [room.players[i] EXCEPT !.connected = FALSE, !.disconnectedAt = now]
            /\ \A j \in 1..Len(room.players) :
                 j # i => rooms'[rid].players[j] = room.players[j]

\* C11: when a socket that holds a slot disconnects, a lobby room loses
\* the slot, is deleted when no slot remains and otherwise has a leader
\* among the remaining slots; a started room keeps the slot, marked
\* disconnected with the time of the disconnect, and keeps its session.
DisconnectKeepsStartedSlot ==
  [][\A s \in Sockets :
       (Closes(s) /\ HasRoom(playerRoom[s])
          /\ SlotOfSocket(rooms[playerRoom[s]].players, s) # 0)
         => DisconnectPost(s, playerRoom[s],
                           SlotOfSocket(rooms[playerRoom[s]].players, s))]_vars

DisconnectedSlotKeptWitness ==
  \E r \in DOMAIN rooms :
    /\ rooms[r].started /\ rooms[r].game # NoGame
    /\ \E i \in 1..Len(rooms[r].players) :
         /\ ~rooms[r].players[i].connected
         /\ rooms[r].players[i].disconnectedAt = now
         /\ sockets[rooms[r].players[i].id] = "closed"
    /\ \E i \in 1..Len(rooms[r].players) : rooms[r].players[i].connected
    /\ ack = NoAck /\ Len(emits) = 1

\* the clock readings of the ticks, over all profiles
Instants ==
  RoomsProfile.instants \cup GameProfile.instants \cup SweepProfile.instants

\* the step is the tick at clock t
TickAt(t) == \E w \in WanderDirs, u \in WolfDraws, ub \in WolfDraws : Tick(t, w, u, ub)

\* the slots of a room the sweep at clock t must keep
WithinGrace(room, t) ==
  SelectSeq(room.players,
    LAMBDA p : p.connected \/ t - p.disconnectedAt <= PLAYER_RECONNECT_GRACE_MS)

SlotKeys(players) ==
  [i \in 1..Len(players) |->
     <<players[i].clientId, players[i].id, players[i].connected,
       players[i].disconnectedAt>>]

\* the sweep at clock t keeps exactly the slots within grace, and deletes a
\* room left without slots
SweepPost(t) ==
  \A r \in DOMAIN rooms :
    IF Len(WithinGrace(rooms[r], t)) = 0
      THEN r \notin DOMAIN rooms'
      ELSE r \in DOMAIN rooms' =>
             SlotKeys(rooms'[r].players) = SlotKeys(WithinGrace(rooms[r], t))

\* outside the sweep no step removes a disconnected slot from a room it keeps
SlotsOutliveHandlers ==
  \A r \in KeptRooms :
    \A i \in 1..Len(rooms[r].players) :
      ~rooms[r].players[i].connected =>
        \E j \in 1..Len(rooms'[r].players) :
          rooms'[r].players[j].clientId = rooms[r].players[i].clientId

\* C12: the sweep at clock t keeps a disconnected slot while
\* t - disconnectedAt is at most the reconnect grace (3 minutes) and prunes
\* it at the first tick past it; no other step removes a disconnected slot;
\* a connected slot, reconnected ones included, carries no disconnect
\* timestamp; and the sweep deletes a room left with zero slots.
SweepPrunesAfterGrace ==
  /\ [](\A r \in DOMAIN rooms : \A i \in 1..Len(rooms[r].players) :
          rooms[r].players[i].connected => rooms[r].players[i].disconnectedAt = 0)
  /\ [][\A t \in Instants \cup {now} : TickAt(t) => SweepPost(t)]_vars
  /\ [][(\A t \in Instants \cup {now} : ~TickAt(t)) => SlotsOutliveHandlers]_vars

\* a slot disconnected exactly one grace period ago has survived the sweep,
\* next to a connected slot
SlotKeptAtGraceWitness ==
  /\ now = StartTime + PLAYER_RECONNECT_GRACE_MS /\ lastTickAt = now
  /\ \E r \in DOMAIN rooms : \E i, j \in 1..Len(rooms[r].players) :
       /\ ~rooms[r].players[i].connected
       /\ now - rooms[r].players[i].disconnectedAt = PLAYER_RECONNECT_GRACE_MS
       /\ rooms[r].players[j].connected
       /\ rooms[r].players[j].disconnectedAt = 0

\* the room is started and none of its slots is connected
EmptyStarted(room) == room.started /\ Len(connectedPlayers(room)) = 0

\* the clock of the latest disconnect among the slots of a room
LastDisconnectAt(room) ==
  CHOOSE t \in {room.players[i].disconnectedAt : i \in 1..Len(room.players)} :
    \A i \in 1..Len(room.players) : room.players[i].disconnectedAt <= t

\* emptySince is the clock at which the last connected member left, and 0
\* in a room that has a connected member
TimerTracksEmptiness ==
  \A r \in DOMAIN rooms :
    rooms[r].emptySince =
      IF EmptyStarted(rooms[r]) THEN LastDisconnectAt(rooms[r]) ELSE 0

\* the sweep at clock t deletes the started rooms that have been without a
\* connected member for longer than the long grace window, and keeps a room
\* that has a slot within grace and has not been empty that long
EmptyRoomPost(t) ==
  \A r \in DOMAIN rooms :
    /\ (EmptyStarted(rooms[r]) /\ t - rooms[r].emptySince > EMPTY_STARTED_ROOM_GRACE_MS)
         => r \notin DOMAIN rooms'
    /\ (Len(WithinGrace(rooms[r], t)) > 0
          /\ (EmptyStarted(rooms[r])
                => t - rooms[r].emptySince <= EMPTY_STARTED_ROOM_GRACE_MS))
         => r \in DOMAIN rooms'

NamedTarget(room, enemyType, enemyId) ==
  LET p2 == room.game.phase2
  IN IF enemyType = "bandit"
       THEN (IF \E i \in 1..Len(p2.bandits) : p2.bandits[i].id = enemyId
               THEN p2.bandits[CHOOSE i \in 1..Len(p2.bandits) : p2.bandits[i].id = enemyId]
               ELSE NoEnemy)
     ELSE IF enemyType = "dire" THEN p2.direWolf
     ELSE IF enemyType = "warlord" THEN p2.warlord
     ELSE NoEnemy

\* the error of an enemy:hit when the checks run in the order: attacker has
\* a position, attacker's zone is the target's zone, target is alive, range
ZoneFirstError(room, s, enemyType, enemyId, heavy) ==
  LET pi == SlotOfSocket(room.players, s)
      named == NamedTarget(room, enemyType, enemyId)
  IN IF pi = 0 \/ room.players[pi].state = NullState THEN "Missing player state"
     ELSE IF named # NoEnemy /\ room.players[pi].state.map # named.map THEN "Wrong map"
     ELSE IF named = NoEnemy \/ ~named.alive THEN "Enemy not found"
     ELSE IF ~withinMeleeRange(room.players[pi].state, named, heavy) THEN "Out of range"
     ELSE ""

\* C14: a melee call reports the first failing check in the order: room
\* started, attacker has a position, attacker's zone matches the target's
\* zone, target alive, range; when the zone check and the alive check both
\* fail the error is the zone error, for wolves and for every other enemy.
MeleeChecksZoneBeforeAlive ==
  [][/\ ack'.op = "wolf:hit" =>
          \A s \in CombatProfile.sockets, r \in CombatProfile.roomIds,
             w \in CombatProfile.wolfIds, h \in CombatProfile.heavies,
             d \in CombatProfile.damages, u \in WolfDraws :
            (WolfHit(s, r, w, h, d, u) /\ HasRoom(ResolveRoomId(r, s))
               /\ rooms[ResolveRoomId(r, s)].started
               /\ SlotOfSocket(rooms[ResolveRoomId(r, s)].players, s) # 0
               /\ rooms[ResolveRoomId(r, s)].players[
                    SlotOfSocket(rooms[ResolveRoomId(r, s)].players, s)].state.map # "silver")
              => (~ack'.ok /\ ack'.error = "Player not in Silver Keep")
     /\ ack'.op = "enemy:hit" =>
          \A s \in CombatProfile.sockets, r \in CombatProfile.roomIds,
             e \in CombatProfile.enemyTypes, w \in CombatProfile.wolfIds,
             h \in CombatProfile.heavies, d \in CombatProfile.damages,
             u \in WolfDraws :
            (EnemyHit(s, r, e, w, h, d, u) /\ HasRoom(ResolveRoomId(r, s))
               /\ rooms[ResolveRoomId(r, s)].started)
              => ack'.error = ZoneFirstError(rooms[ResolveRoomId(r, s)], s, e, w, h)]_vars

\* where the live enemies of a room's session stand, and their radii
LiveTargets(room) ==
  IF room.game = NoGame THEN {}
  ELSE LET g == room.game
       IN {[x |-> e.x, y |-> e.y, r |-> e.r] :
             e \in {c \in {g.phase1.wolves[i] : i \in 1..Len(g.phase1.wolves)}
                           \cup {g.phase2.bandits[i] : i \in 1..Len(g.phase2.bandits)}
                           \cup {g.phase2.direWolf, g.phase2.warlord} :
                      c # NoEnemy /\ c.alive}}

\* offsets of attacker positions from the target: around the reach of a
\* light and of a heavy blow on every species, on an axis and off it
\* (105^2 + 36^2 = 111^2)
GridDx ==
  {-140, -139, -132, -131, -112, -111, -105, -104, -103, 0,
   103, 104, 105, 111, 112, 131, 132, 139, 140}
GridDy == {-36, 0, 36, 37}

\* the squared reach of a blow on an enemy of radius r
ReachSquared(r, isHeavy) ==
  ((IF isHeavy THEN 96 ELSE 68) + r + 20) * ((IF isHeavy THEN 96 ELSE 68) + r + 20)

SquaredDistance(st, e) == (st.x - e.x) * (st.x - e.x) + (st.y - e.y) * (st.y - e.y)

\* the checks of enemy:hit before the range check pass
ReachesRangeCheck(room, s, enemyType, enemyId) ==
  LET pi == SlotOfSocket(room.players, s)
      enemy == HitTarget(room, enemyType, enemyId)
  IN /\ pi # 0 /\ room.players[pi].state # NullState
     /\ enemy # NoEnemy /\ room.players[pi].state.map = enemy.map

\* C15: for every attacker position on the grid, live target and heavy
\* flag, the range check passes iff dx^2 + dy^2 <= (range + r + 20)^2 with
\* range 96 for a heavy and 68 for a light blow; an enemy:hit that passes
\* the earlier checks is accepted iff it is within that reach and otherwise
\* fails with "Out of range".
MeleeRangeBoundary ==
  /\ [](\A r \in DOMAIN rooms : \A e \in LiveTargets(rooms[r]) :
          \A dx \in GridDx, dy \in GridDy, h \in BOOLEAN :
            withinMeleeRange([x |-> e.x + dx, y |-> e.y + dy], e, h)
              <=> dx * dx + dy * dy <= ReachSquared(e.r, h))
  /\ [][(ack'.op = "enemy:hit" /\ ack'.error \in {"", "Out of range"}) =>
          \A s \in CombatProfile.sockets, r \in RoomIds,
             e \in CombatProfile.enemyTypes, w \in CombatProfile.wolfIds,
             h \in CombatProfile.heavies, d \in CombatProfile.damages,
             u \in WolfDraws :
            (EnemyHit(s, r, e, w, h, d, u) /\ HasRoom(r) /\ rooms[r].started
               /\ ReachesRangeCheck(rooms[r], s, e, w))
              => LET st == rooms[r].players[SlotOfSocket(rooms[r].players, s)].state
                     enemy == HitTarget(rooms[r], e, w)
                 IN IF SquaredDistance(st, enemy) <= ReachSquared(enemy.r, h)
                      THEN ack'.ok
                      ELSE ~ack'.ok /\ ack'.error = "Out of range"]_vars
  /\ [][(ack'.op = "enemy:hit" /\ ack'.error = "Out of range") =>
          \E r \in DOMAIN rooms : \E e \in LiveTargets(rooms[r]) :
            \E i \in 1..Len(rooms[r].players) :
              SquaredDistance(rooms[r].players[i].state, e) > ReachSquared(e.r, FALSE)]_vars

\* a light blow from exactly the maximal distance (111 from the dire wolf)
\* has been accepted
BoundaryHitAcceptedWitness ==
  /\ ack.op = "enemy:hit" /\ ack.ok /\ ~ack.killed
  /\ \E r \in DOMAIN rooms : \E i \in 1..Len(rooms[r].players) :
       /\ rooms[r].players[i].state = SilverLightEdge
       /\ rooms[r].game.phase2.direWolf # NoEnemy
       /\ SquaredDistance(rooms[r].players[i].state, rooms[r].game.phase2.direWolf)
            = ReachSquared(rooms[r].game.phase2.direWolf.r, FALSE)
       /\ rooms[r].game.phase2.direWolf.hp < rooms[r].game.phase2.direWolf.maxHp
       /\ rooms[r].game.phase2.direWolf.hp = rooms[r].game.phase2.direWolf.maxHp - 60

\* payload.damage values: negative, zero, missing, non-numeric, fractions
\* below 1, at a half, and around 999, and integers up to far above 999
DamageInputs ==
  {RNum(-5), RNum(0), RUndef, RStr, RFrac(-1, 2), RFrac(2, 5), RFrac(1, 2),
   RNum(1), RNum(60), RFrac(119, 2), RFrac(298, 5), RNum(999), RFrac(1997, 2),
   RFrac(1999, 2), RNum(1000), RNum(5000)}

\* the damage the claim gives an input: 1 below 1, 999 above 999, the
\* rounded input in between
ClaimedDamage(raw) ==
  IF raw.t = "num" THEN (IF raw.n < 1 THEN 1 ELSE IF raw.n > 999 THEN 999 ELSE raw.n)
  ELSE IF raw.t = "frac"
    THEN (IF raw.n < raw.d THEN 1
          ELSE IF raw.n > 999 * raw.d THEN 999
          ELSE IF 2 * (raw.n % raw.d) >= raw.d THEN raw.n \div raw.d + 1
          ELSE raw.n \div raw.d)
  ELSE 1

\* the live enemies of a room's session
LiveEnemies(room) ==
  IF room.game = NoGame THEN {}
  ELSE LET g == room.game
       IN {c \in {g.phase1.wolves[i] : i \in 1..Len(g.phase1.wolves)}
                   \cup {g.phase2.bandits[i] : i \in 1..Len(g.phase2.bandits)}
                   \cup {g.phase2.direWolf, g.phase2.warlord} :
             c # NoEnemy /\ c.alive}

\* the hit points of the enemies of a session, by species and id; a slain
\* dire wolf or warlord counts 0
HpOf(room) ==
  LET g == room.game
  IN [wolves |-> [i \in 1..Len(g.phase1.wolves) |-> g.phase1.wolves[i].hp],
      bandits |-> [i \in 1..Len(g.phase2.bandits) |-> g.phase2.bandits[i].hp],
      dire |-> IF g.phase2.direWolf = NoEnemy THEN 0 ELSE g.phase2.direWolf.hp,
      warlord |-> IF g.phase2.warlord = NoEnemy THEN 0 ELSE g.phase2.warlord.hp]

\* the hit points a step takes from the enemies of room r
HpLost(r) ==
  LET a == HpOf(rooms[r])
      b == HpOf(rooms'[r])
  IN {a.wolves[i] - b.wolves[i] : i \in DOMAIN a.wolves}
       \cup {a.bandits[i] - b.bandits[i] : i \in DOMAIN a.bandits}
       \cup {a.dire - b.dire, a.warlord - b.warlord}

\* C16: the damage a blow subtracts is an integer in [1, 999] for every
\* payload value: below 1, missing or non-numeric gives 1, above 999 gives
\* 999, in between the rounded input (the hit points stop at 0); and every
\* accepted wolf:hit or enemy:hit takes between 1 and 999 hit points from
\* exactly one enemy.
DamageClamped ==
  /\ [](\A r \in DOMAIN rooms : \A e \in LiveEnemies(rooms[r]) :
          \A raw \in DamageInputs :
            /\ ClaimedDamage(raw) \in 1..999
            /\ applyEnemyDamage(e, raw).enemy.hp = Max(0, e.hp - ClaimedDamage(raw)))
  /\ [][(ack'.op \in {"wolf:hit", "enemy:hit"} /\ ack'.ok) =>
          \A r \in KeptRooms :
            rooms'[r] # rooms[r] =>
              /\ Cardinality({l \in HpLost(r) : l # 0}) = 1
              /\ \A l \in HpLost(r) : l \in 0..999]_vars

\* a blow with fractional damage 59.5 has taken 60 hit points from the
\* dire wolf
RoundedDamageWitness ==
  /\ ack.op = "enemy:hit" /\ ack.ok
  /\ \E r \in DOMAIN rooms :
       /\ rooms[r].game.phase2.direWolf # NoEnemy
       /\ rooms[r].game.phase2.direWolf.hp
            = rooms[r].game.phase2.direWolf.maxHp - 60
       /\ applyEnemyDamage([rooms[r].game.phase2.direWolf EXCEPT !.hp = @ + 60],
                           RFrac(119, 2)).enemy = rooms[r].game.phase2.direWolf

\* every enemy a session holds, dead ones included
AllEnemies(room) ==
  IF room.game = NoGame THEN {}
  ELSE LET g == room.game
       IN ({g.phase1.wolves[i] : i \in 1..Len(g.phase1.wolves)}
             \cup {g.phase2.bandits[i] : i \in 1..Len(g.phase2.bandits)}
             \cup {g.phase2.direWolf, g.phase2.warlord}) \ {NoEnemy}

DeadIffNoHp(e) == e.hp >= 0 /\ (~e.alive <=> e.hp = 0)

\* the enemy at index i of a pool is alive before the step and is not after
DiesIn(pool, poolAfter, i) ==
  pool[i].alive /\ (i \notin DOMAIN poolAfter \/ ~poolAfter[i].alive)

\* a single enemy (dire wolf, warlord) is alive before the step and is dead
\* or removed after
SingleDies(e, eAfter) ==
  e # NoEnemy /\ e.alive /\ (eAfter = NoEnemy \/ ~eAfter.alive)

\* some enemy of a room the step keeps dies in the step
SomeEnemyDies ==
  \E r \in KeptRooms :
    /\ rooms[r].game # NoGame
    /\ \/ rooms'[r].game = NoGame
       \/ \E i \in 1..Len(rooms[r].game.phase1.wolves) :
            DiesIn(rooms[r].game.phase1.wolves, rooms'[r].game.phase1.wolves, i)
       \/ \E i \in 1..Len(rooms[r].game.phase2.bandits) :
            DiesIn(rooms[r].game.phase2.bandits, rooms'[r].game.phase2.bandits, i)
       \/ SingleDies(rooms[r].game.phase2.direWolf, rooms'[r].game.phase2.direWolf)
       \/ SingleDies(rooms[r].game.phase2.warlord, rooms'[r].game.phase2.warlord)

Deaths(pool, poolAfter) ==
  Cardinality({i \in 1..Len(pool) : DiesIn(pool, poolAfter, i)})

\* what an accepted blow with payload damage d on a wolf or bandit of room
\* r does: a non-lethal blow takes the clamped damage and leaves the quest
\* alone, a lethal one adds exactly 1 to the counter of the species
BlowPost(r, d, counter, other) ==
  LET q == rooms[r].game.questSync
      qAfter == rooms'[r].game.questSync
  IN IF ack'.killed
       THEN /\ qAfter = [q EXCEPT ![counter] = @ + 1]
            /\ qAfter[other] = q[other]
       ELSE /\ qAfter = q
            /\ {l \in HpLost(r) : l # 0} = {ClaimedDamage(d)}

\* C18: an accepted non-lethal blow takes exactly the clamped damage from
\* its target and changes no quest counter; an accepted lethal blow on a
\* wolf (bandit) adds exactly 1 to wolvesSlain (banditsSlain); a blow that
\* names a dead enemy is rejected and a kill counter moves in a blow only
\* when exactly one live enemy of the species dies, so that an enemy is
\* counted at most once.
KillCountedOnce ==
  /\ [](\A r \in DOMAIN rooms : \A s \in Sockets :
          (rooms[r].started /\ rooms[r].game # NoGame) =>
            \A w \in CombatProfile.wolfIds, h \in BOOLEAN :
              /\ (~\E i \in 1..Len(rooms[r].game.phase1.wolves) :
                     /\ rooms[r].game.phase1.wolves[i].id = w
                     /\ rooms[r].game.phase1.wolves[i].alive)
                   => WolfHitError(rooms[r], s, w, h) # ""
              /\ (~\E i \in 1..Len(rooms[r].game.phase2.bandits) :
                     /\ rooms[r].game.phase2.bandits[i].id = w
                     /\ rooms[r].game.phase2.bandits[i].alive)
                   => EnemyHitError(rooms[r], s, "bandit", w, h) # "")
  /\ [][(ack'.op = "wolf:hit" /\ ack'.ok) =>
          \A s \in CombatProfile.sockets, r \in RoomIds,
             w \in CombatProfile.wolfIds, h \in CombatProfile.heavies,
             d \in CombatProfile.damages, u \in WolfDraws :
            WolfHit(s, r, w, h, d, u)
              => BlowPost(r, d, "wolvesSlain", "banditsSlain")]_vars
  /\ [][(ack'.op = "enemy:hit" /\ ack'.ok) =>
          \A s \in CombatProfile.sockets, r \in RoomIds,
             w \in CombatProfile.wolfIds, h \in CombatProfile.heavies,
             d \in CombatProfile.damages, u \in WolfDraws :
            EnemyHit(s, r, "bandit", w, h, d, u)
              => BlowPost(r, d, "banditsSlain", "wolvesSlain")]_vars
  /\ [][ack'.op \in {"wolf:hit", "enemy:hit"} =>
          \A r \in KeptRooms :
            (rooms[r].game # NoGame /\ rooms'[r].game # NoGame) =>
              /\ rooms'[r].game.questSync.wolvesSlain
                   = rooms[r].game.questSync.wolvesSlain
                       + Deaths(rooms[r].game.phase1.wolves, rooms'[r].game.phase1.wolves)
              /\ rooms'[r].game.questSync.banditsSlain
                   = rooms[r].game.questSync.banditsSlain
                       + Deaths(rooms[r].game.phase2.bandits, rooms'[r].game.phase2.bandits)
              /\ Deaths(rooms[r].game.phase1.wolves, rooms'[r].game.phase1.wolves)
                   + Deaths(rooms[r].game.phase2.bandits, rooms'[r].game.phase2.bandits) <= 1]_vars
  /\ [][\A r \in KeptRooms :
          (rooms[r].game # NoGame /\ rooms'[r].game # NoGame) =>
            /\ \A i \in 1..Len(rooms[r].game.phase1.wolves) :
                 ~rooms[r].game.phase1.wolves[i].alive
                   => rooms'[r].game.phase1.wolves[i] = rooms[r].game.phase1.wolves[i]
            /\ \A i \in 1..Len(rooms[r].game.phase2.bandits) :
                 ~rooms[r].game.phase2.bandits[i].alive
                   => rooms'[r].game.phase2.bandits[i] = rooms[r].game.phase2.bandits[i]]_vars

\* a lethal blow on a bandit has been accepted and banditsSlain counts the
\* one dead bandit once
BanditKillCountedWitness ==
  /\ ack.op = "enemy:hit" /\ ack.ok /\ ack.killed
  /\ \E r \in DOMAIN rooms :
       /\ rooms[r].game.questSync.banditsSlain = 1
       /\ Cardinality({i \in 1..Len(rooms[r].game.phase2.bandits) :
                         ~rooms[r].game.phase2.bandits[i].alive}) = 1
       /\ rooms[r].game.questSync.direDefeated = FALSE

\* the slain event names an enemy of the pool that dies in the step, with
\* the position it died at
SlainFrom(pool, poolAfter, id, x, y) ==
  \E i \in 1..Len(pool) :
    /\ DiesIn(pool, poolAfter, i)
    /\ poolAfter[i].id = id /\ poolAfter[i].x = x /\ poolAfter[i].y = y

\* the payload of the slain event of a lethal blow on room r: the kill
\* position and the quest values after the kill bookkeeping
SlainPayloadPost(r, slain) ==
  LET g == rooms[r].game
      gAfter == rooms'[r].game
  IN IF slain.ev = "wolf:slain"
       THEN /\ slain.data.wolvesSlain = gAfter.questSync.wolvesSlain
            /\ slain.data.gotPelt = gAfter.questSync.gotPelt
            /\ SlainFrom(g.phase1.wolves, gAfter.phase1.wolves,
                         slain.data.wolfId, slain.data.x, slain.data.y)
       ELSE /\ slain.data.quest = sanitizeQuestSync(gAfter.questSync)
            /\ \/ /\ slain.data.enemyType = "bandit"
                  /\ SlainFrom(g.phase2.bandits, gAfter.phase2.bandits,
                               slain.data.enemyId, slain.data.x, slain.data.y)
               \/ /\ slain.data.enemyType = "dire"
                  /\ SingleDies(g.phase2.direWolf, gAfter.phase2.direWolf)
                  /\ slain.data.quest.direDefeated
                  /\ slain.data.x = g.phase2.direWolf.x
                  /\ slain.data.y = g.phase2.direWolf.y

\* the acknowledgment and the broadcasts of an accepted blow on room r
MeleeReportPost(r) ==
  /\ ack'.killed \in BOOLEAN /\ ack'.hp \in Nat
  /\ Len(emits') = IF ack'.killed THEN 3 ELSE 1
  /\ <<emits'[Len(emits')]>> = emitGameState(rooms'[r])
  /\ IF ack'.killed
       THEN /\ ack'.hp = 0
            /\ SomeEnemyDies
            /\ emits'[1].ev = (IF ack'.op = "wolf:hit" THEN "wolf:slain" ELSE "enemy:slain")
            /\ emits'[1].to = r
            /\ SlainPayloadPost(r, emits'[1])
            /\ <<emits'[2]>> = emitQuestSync(rooms'[r])
       ELSE /\ ack'.hp > 0
            /\ ~SomeEnemyDies
            /\ \E e \in AllEnemies(rooms'[r]) \ AllEnemies(rooms[r]) : e.hp = ack'.hp

ErrorTags ==
  {"Room not active", "Player not in Silver Keep", "Wolf not found",
   "Out of range", "Missing player state", "Enemy not found", "Wrong map",
   "Room not found", "Room already started", "Wrong room code", "Room full",
   "Player slot not found", "Leader not found", "Leader should resolve locally"}

\* C20: a call of wolf:hit, enemy:hit, room:join, room:reconnect,
\* quest:sync or wave:hit that fails validation acknowledges with an error
\* tag, broadcasts nothing and changes no room (no player list, enemy or
\* quest field) and no entry of the connection -> room index.
RejectedCallChangesNothing ==
  [][(ack'.op \in {"wolf:hit", "enemy:hit", "room:join", "room:reconnect",
                   "quest:sync", "wave:hit"} /\ ~ack'.ok) =>
       /\ ack'.error \in ErrorTags
       /\ rooms' = rooms /\ playerRoom' = playerRoom
       /\ nextRoomId' = nextRoomId /\ sockets' = sockets
       /\ emits' = <<>>]_vars

\* an enemy:hit from beyond reach has been rejected: the dire wolf keeps
\* its hit points and nothing is broadcast
RejectedHitWitness ==
  /\ ack.op = "enemy:hit" /\ ~ack.ok /\ ack.error = "Out of range"
  /\ emits = <<>>
  /\ \E r \in DOMAIN rooms :
       /\ rooms[r].game.phase2.direWolf # NoEnemy
       /\ rooms[r].game.phase2.direWolf.hp = rooms[r].game.phase2.direWolf.maxHp
       /\ \E i \in 1..Len(rooms[r].players) : rooms[r].players[i].state = SilverBeyond

\* C21: after every tick of a started room at least 5 wolves are alive,
\* and at least 5 bandits when the quest stage is 10 or more, however many
\* lethal hits were accepted since the tick before.
PoolsKeepFiveAlive ==
  [][(\E t \in Instants \cup {now} : TickAt(t)) =>
       \A r \in DOMAIN rooms' :
         (rooms'[r].started /\ HasGame(rooms'[r])) =>
           /\ AliveCount(rooms'[r].game.phase1.wolves) >= 5
           /\ rooms'[r].game.questSync.stage >= 10
                => AliveCount(rooms'[r].game.phase2.bandits) >= 5]_vars


\* the session of room r carries the defeat flag of the boss of that type
Defeated(room, enemyType) ==
  IF enemyType = "dire" THEN room.game.questSync.direDefeated
  ELSE room.game.questSync.warlordDefeated

BossSlot(room, enemyType) ==
  IF enemyType = "dire" THEN room.game.phase2.direWolf ELSE room.game.phase2.warlord

BossTypes == {"dire", "warlord"}

\* C22: once a boss's defeat flag is true its slot is empty, the flag and
\* the empty slot last as long as the session, and no enemy:hit on that boss
\* passes the handler's checks.
DefeatedBossStaysGone ==
  /\ [](\A r \in DOMAIN rooms : \A b \in BossTypes :
          (HasGame(rooms[r]) /\ Defeated(rooms[r], b)) =>
            /\ BossSlot(rooms[r], b) = NoEnemy
            /\ \A s \in Sockets, h \in BOOLEAN :
                 EnemyHitError(rooms[r], s, b, 0, h) # "")
  /\ [][\A r \in DOMAIN rooms : \A b \in BossTypes :
          (HasGame(rooms[r]) /\ Defeated(rooms[r], b) /\ r \in DOMAIN rooms')
            => (HasGame(rooms'[r]) /\ Defeated(rooms'[r], b))]_vars

\* both bosses are defeated, and a blow on one of them has just been refused
DefeatedBossHitRefusedWitness ==
  /\ ack.op = "enemy:hit" /\ ~ack.ok /\ ack.error = "Enemy not found"
  /\ \E r \in DOMAIN rooms :
       /\ HasGame(rooms[r])
       /\ rooms[r].game.questSync.stage >= 14
       /\ Defeated(rooms[r], "dire") /\ Defeated(rooms[r], "warlord")
       /\ SlotOfSocket(rooms[r].players, 1) # 0
       /\ rooms[r].players[SlotOfSocket(rooms[r].players, 1)].state = CaveAtWarlord

\* the slots of a room that are connected, and those among them that carry
\* the leader flag
ConnectedSlots(room) == {i \in 1..Len(room.players) : room.players[i].connected}
FlaggedSlots(room) == {i \in ConnectedSlots(room) : room.players[i].leader}

\* the connection of the current leader: the first connected slot with the
\* leader flag, without one the first connected slot; 0 when nobody is connected
CurrentLeader(room) ==
  LET from == IF FlaggedSlots(room) # {} THEN FlaggedSlots(room) ELSE ConnectedSlots(room)
  IN IF from = {} THEN 0
     ELSE room.players[CHOOSE i \in from : \A j \in from : i <= j].id

WaveRefused(error) ==
  /\ ack' = [op |-> "wave:hit", ok |-> FALSE, error |-> error]
  /\ emits' = <<>>

\* one wave:hit to the leader's connection, then the acknowledgment {ok: true}
WaveRelayed(room, s, heavy) ==
  /\ ack'.op = "wave:hit" /\ ack'.ok
  /\ Len(emits') = 1
  /\ emits'[1].ev = "wave:hit"
  /\ emits'[1].to = CurrentLeader(room)
  /\ emits'[1].data.roomId = room.id
  /\ emits'[1].data.enemyId = 1
  /\ emits'[1].data.damage = RNum(40)
  /\ emits'[1].data.heavy = heavy
  /\ emits'[1].data.fromId = s

WaveHitPost(s, r, h) ==
  LET rid == ResolveRoomId(r, s)
  IN (HasRoom(rid) /\ rooms[rid].started) =>
       IF CurrentLeader(rooms[rid]) = 0 THEN WaveRefused("Leader not found")
       ELSE IF CurrentLeader(rooms[rid]) = s
         THEN WaveRefused("Leader should resolve locally")
       ELSE WaveRelayed(rooms[rid], s, RBool(Truthy(h)))

WaveStatePost(s, r) ==
  LET rid == ResolveRoomId(r, s)
  IN IF HasRoom(rid) /\ rooms[rid].started /\ CurrentLeader(rooms[rid]) = s
       THEN emits' = <<[ev |-> "wave:state", to |-> rid, data |-> [state |-> 1]]>>
       ELSE emits' = <<>>

\* C23 (as amended): in a started room with somebody connected, a wave:hit
\* from any connection but the current leader's goes to the current leader's
\* connection alone, with enemyId and damage as sent and heavy as a boolean,
\* and is acknowledged ok; the current leader's own wave:hit is refused and
\* relayed nowhere; with nobody connected a wave:hit is refused with
\* "Leader not found"; a wave:state is rebroadcast exactly when the current
\* leader sent it. Both handlers take the same single connection for leader.
WaveRelayContract ==
  [][/\ ack'.op = "wave:hit" =>
          \A s \in Sockets, r \in RelayProfile.roomIds, h \in RelayProfile.heavies :
            WaveHit(s, r, 1, RNum(40), h) => WaveHitPost(s, r, h)
     /\ ack' = NoAck =>
          \A s \in Sockets, r \in RelayProfile.roomIds :
            WaveState(s, r, 1) => WaveStatePost(s, r)]_vars

\* a wave:hit has just been relayed, with heavy true, away from a connected
\* slot that carries the leader flag itself and is not the current leader
RelayPastSecondLeaderWitness ==
  /\ ack.op = "wave:hit" /\ ack.ok
  /\ Len(emits) = 1
  /\ emits[1].data.heavy = RBool(TRUE)
  /\ \E r \in DOMAIN rooms :
       /\ rooms[r].started
       /\ emits[1].to = CurrentLeader(rooms[r])
       /\ \E i \in FlaggedSlots(rooms[r]) : rooms[r].players[i].id = emits[1].data.fromId

\* C23 (as claimed): every wave:hit of a started room that does not come from
\* the current leader is relayed to the current leader with heavy exactly as
\* sent.
WaveRelayVerbatim ==
  [][ack'.op = "wave:hit" =>
       \A s \in Sockets, r \in RelayProfile.roomIds, h \in RelayProfile.heavies :
         WaveHit(s, r, 1, RNum(40), h) =>
           LET rid == ResolveRoomId(r, s)
           IN (HasRoom(rid) /\ rooms[rid].started) =>
                IF CurrentLeader(rooms[rid]) = s
                  THEN WaveRefused("Leader should resolve locally")
                  ELSE WaveRelayed(rooms[rid], s, h)]_vars

\* the step's broadcasts hold a game:state for room r
SnapshotTo(sent, r) == \E i \in 1..Len(sent) : sent[i].ev = "game:state" /\ sent[i].to = r

\* C24: two game:state broadcasts to the same room are at least 180 ms apart:
\* a step that sends one is not followed, less than 180 ms later, by a step
\* that sends another, whatever handler or tick the two steps are.
SnapshotsThrottled ==
  [][\A r \in RoomIds :
       (SnapshotTo(emits, r) /\ SnapshotTo(emits', r))
         => now' - now >= GAME_STATE_EMIT_MS]_vars

InsideLeash(e, leash) ==
  /\ leash.minX <= e.x /\ e.x <= leash.maxX
  /\ leash.minY <= e.y /\ e.y <= leash.maxY

\* C25: in every reachable state every wolf, bandit, dire wolf and warlord
\* lies inside the leash rectangle of its species, where it spawned and
\* wherever the ticks moved it.
EnemiesInsideLeash ==
  \A r \in DOMAIN rooms :
    HasGame(rooms[r]) =>
      LET g == rooms[r].game
      IN /\ \A i \in 1..Len(g.phase1.wolves) : InsideLeash(g.phase1.wolves[i], WOLF_LEASH)
         /\ \A i \in 1..Len(g.phase2.bandits) : InsideLeash(g.phase2.bandits[i], BANDIT_LEASH)
         /\ g.phase2.direWolf # NoEnemy => InsideLeash(g.phase2.direWolf, DIRE_LEASH)
         /\ g.phase2.warlord # NoEnemy => InsideLeash(g.phase2.warlord, WARLORD_CAVE_LEASH)

\* a wolf that chased the player stands on the west edge of its leash, and
\* all three phase-2 pools are filled
WolfHeldAtLeashEdgeWitness ==
  \E r \in DOMAIN rooms :
    /\ HasGame(rooms[r])
    /\ \E i \in 1..Len(rooms[r].game.phase1.wolves) :
         /\ rooms[r].game.phase1.wolves[i].alive
         /\ rooms[r].game.phase1.wolves[i].x = WOLF_LEASH.minX
    /\ Len(rooms[r].game.phase2.bandits) > 0
    /\ rooms[r].game.phase2.direWolf # NoEnemy
    /\ rooms[r].game.phase2.warlord # NoEnemy

\* C26: in every session the bandit pool is non-empty only from stage 10,
\* a dire wolf exists only from stage 6 and while direDefeated is false, a
\* warlord only from stage 14 and while warlordDefeated is false, and each
\* boss slot holds at most the one instance of its own species.
PoolsFollowUnlockGates ==
  \A r \in DOMAIN rooms :
    HasGame(rooms[r]) =>
      LET q == rooms[r].game.questSync
          p2 == rooms[r].game.phase2
      IN /\ Len(p2.bandits) > 0 => q.stage >= 10
         /\ \A i \in 1..Len(p2.bandits) : p2.bandits[i].type = "bandit"
         /\ p2.direWolf # NoEnemy =>
              (q.stage >= 6 /\ ~q.direDefeated /\ p2.direWolf.type = "dire")
         /\ p2.warlord # NoEnemy =>
              (q.stage >= 14 /\ ~q.warlordDefeated /\ p2.warlord.type = "warlord")

\* stage 10 reached: bandits and the dire wolf are there, the warlord is not
BanditsWithoutWarlordWitness ==
  \E r \in DOMAIN rooms :
    /\ HasGame(rooms[r])
    /\ rooms[r].game.questSync.stage = 10
    /\ Len(rooms[r].game.phase2.bandits) = 10
    /\ rooms[r].game.phase2.direWolf # NoEnemy
    /\ rooms[r].game.phase2.warlord = NoEnemy
    /\ lastTickAt > StartTime

\* the room that a room:create has just made
CreatedRoom == rooms'[nextRoomId]

\* C27: a room never holds more slots than its capacity, the capacity lies
\* between 1 and 4, and a room that has just been created holds exactly one
\* slot: connected, leader, not ready.
SlotsWithinCapacity ==
  /\ [](\A r \in DOMAIN rooms :
          /\ rooms[r].maxPlayers.d <= rooms[r].maxPlayers.n
          /\ rooms[r].maxPlayers.n <= 4 * rooms[r].maxPlayers.d
          /\ Len(rooms[r].players) * rooms[r].maxPlayers.d <= rooms[r].maxPlayers.n)
  /\ [][ack'.op = "room:create" =>
          /\ Len(CreatedRoom.players) = 1
          /\ CreatedRoom.players[1].connected
          /\ CreatedRoom.players[1].leader
          /\ ~CreatedRoom.players[1].ready]_vars

NoSharedSocketId(players) ==
  \A i, j \in 1..Len(players) : players[i].id = players[j].id => i = j

\* C28: within a room no two slots carry the same client identity and no
\* two slots are bound to the same connection.
SlotsHaveDistinctIdentities ==
  \A r \in DOMAIN rooms :
    /\ NoSharedClientId(rooms[r].players)
    /\ NoSharedSocketId(rooms[r].players)

\* C29: once the disconnect handler of a connection has run, no room holds a
\* slot that is marked connected and bound to that connection.
ClosedConnectionHoldsNoSlot ==
  \A s \in Sockets :
    sockets[s] = "closed" =>
      \A r \in DOMAIN rooms :
        \A i \in 1..Len(rooms[r].players) :
          ~(rooms[r].players[i].id = s /\ rooms[r].players[i].connected)

\* connection s holds no slot in any room
Outsider(s) == \A r \in DOMAIN rooms : SlotOfSocket(rooms[r].players, s) = 0

\* the step is a quest:sync, quest:phase1:update or wave:hit sent by s with
\* roomId r in its payload
SentNaming(s, r) ==
  \/ \E p \in IsolationProfile.reports, u \in WolfDraws, ub \in WolfDraws :
       QuestSync(s, r, p, u, ub)
  \/ \E g \in IsolationProfile.pelts, u \in WolfDraws : QuestPhase1Update(s, r, g, u)
  \/ WaveHit(s, r, 1, RNum(40), RBool(TRUE))

\* C30: a quest:sync, quest:phase1:update or wave:hit from a connection that
\* holds no slot in the room it names changes nothing in that room (quest
\* state, enemy pools) and sends nothing to the room or to its leader.
RoomIsolation ==
  [][\A s \in Sockets, r \in RoomIds :
       (Outsider(s) /\ SentNaming(s, r)) => (rooms' = rooms /\ emits' = <<>>)]_vars
====
